---- MODULE Spec2Model ----
(***************************************************************************)
(* Model of the Mpox dashboard: the filter engine (utils/data.py), the     *)
(* country aggregation, priority score and recommendation rules            *)
(* (views/insights_view.py, views/recommendations.py) and the pass of      *)
(* main over the tabs (app.py).                                            *)
(*                                                                         *)
(* Numbers are Python/numpy floats.  They are modelled as extended         *)
(* rationals: a finite value n/d in lowest terms, NaN, +inf or -inf, with  *)
(* the IEEE rules for the special values and exact arithmetic on the       *)
(* finite ones (rounding error is not modelled).                           *)
(***************************************************************************)
EXTENDS Integers, Sequences, FiniteSets, TLC

VARIABLES
    pc,              \* position of the run / of the function under study
    r,               \* the aggregate row handed to score_row
    priority_score,  \* what score_row returned for r
    comps,           \* what score_components returned for the row shown
    table,           \* the normalized table load_data returned
    sel,             \* the selection build_sidebar returned
    filtered,        \* what filter_data returned for table and sel
    country_latest,  \* insights_tab: the country aggregates with their scores
    sel_row,         \* insights_tab: the aggregate of the country drilled into
    rec_view,        \* insights_tab: the recommendations per country
    alerts,          \* insights_tab: the alert badges of sel_row
    summary,         \* recommendations_tab: the rows shown, with their advice
    rendered,        \* the tabs of this pass that returned, in order
    raised,          \* the exception that ended the pass, if any
    heap,            \* the DataFrame objects alive, by identity
    returned,        \* the identities filter_data returned, in call order
    context_note,    \* what make_filter_note returned for sel
    sheet,           \* load_data: the sheet read_excel returned
    frame,           \* load_data: its local df
    session,         \* st.session_state, which outlives the runs of a session
    slider,          \* build_sidebar: the bounds of the date slider of this run
    anomaly,         \* insights_tab: what the anomaly section did
    sim              \* insights_tab: what the what-if simulator showed

vars == <<pc, r, priority_score, comps, table, sel, filtered,
          country_latest, sel_row, rec_view, alerts, summary, rendered, raised,
          heap, returned, context_note, sheet, frame, session, slider,
          anomaly, sim>>

\* what the studies of single functions keep besides the pass
\* a DataFrame by position: its column labels in order and its rows of cells,
\* so that two columns may carry one label
NoFrame == [names |-> <<>>, rows |-> <<>>]

\* st.session_state.get(key) of a key that is not set
Unset == 0

\* the session state of a new browser session; a widget key that is absent
\* is the empty tuple
NewSession ==
    [min_dt |-> Unset, max_dt |-> Unset, date_range_slider |-> <<>>,
     countries_multiselect |-> <<>>, clades_multiselect |-> <<>>,
     notes_multiselect |-> <<>>, options |-> <<{}, {}, {}>>]

\* the anomaly section has not run: which countries it fitted with what
\* outcome, and whether it showed the notice
NoAnomaly == [ran |-> FALSE, outcomes |-> <<>>, notice |-> FALSE]

auxVars == <<heap, returned, context_note, sheet, frame, session, slider, anomaly, sim>>

\* no such study is under way
AuxIdle ==
    /\ heap = <<>>
    /\ returned = <<>>
    /\ context_note = ""
    /\ sheet = NoFrame
    /\ frame = NoFrame
    /\ session = NewSession
    /\ slider = <<>>
    /\ anomaly = NoAnomaly
    /\ sim = <<>>

\* what the tabs of one pass leave behind
tabVars == <<country_latest, sel_row, rec_view, alerts, summary, rendered, raised>>

\* an exception: its Python type and the columns its message names
Raise(exc, what) == [exc |-> exc, what |-> what]
NoError == Raise("", {})

\* no tab has run
TabsIdle ==
    /\ country_latest = <<>>
    /\ sel_row = <<>>
    /\ rec_view = <<>>
    /\ alerts = <<>>
    /\ summary = <<>>
    /\ rendered = <<>>
    /\ raised = NoError

-----------------------------------------------------------------------------
(* Float arithmetic *)

Abs(x) == IF x < 0 THEN -x ELSE x

RECURSIVE GCD(_, _)
GCD(a, b) == IF b = 0 THEN a ELSE GCD(b, a % b)

\* the finite value n/d (d > 0), in lowest terms
Fin(n, d) ==
    LET g == GCD(Abs(n), d)
    IN  [k |-> "fin", n |-> n \div g, d |-> d \div g]

F(n) == [k |-> "fin", n |-> n, d |-> 1]
NaN == [k |-> "nan", n |-> 0, d |-> 1]
PInf == [k |-> "pinf", n |-> 0, d |-> 1]
NInf == [k |-> "ninf", n |-> 0, d |-> 1]
Zero == F(0)
One == F(1)

IsNaN(a) == a.k = "nan"
IsInf(a) == a.k \in {"pinf", "ninf"}
IsFin(a) == a.k = "fin"

\* -1, 0 or 1 for a value that is not NaN
Sign(a) ==
    CASE a.k = "pinf" -> 1
      [] a.k = "ninf" -> -1
      [] OTHER -> IF a.n > 0 THEN 1 ELSE IF a.n < 0 THEN -1 ELSE 0

Signed(sg) == IF sg > 0 THEN PInf ELSE NInf

\* a comparison that reads an unknown operand as 0
Lt_fillna(a, b) ==
    LET x == IF IsNaN(a) THEN Zero ELSE a
        y == IF IsNaN(b) THEN Zero ELSE b
    IN  IF IsFin(x) /\ IsFin(y)
        THEN LET g == GCD(x.d, y.d)
             IN  x.n * (y.d \div g) < y.n * (x.d \div g)
        ELSE IF x.k = y.k THEN FALSE
        ELSE x.k = "ninf" \/ y.k = "pinf"

\* a < b; False when either side is NaN
Lt(a, b) ==
    IF IsNaN(a) \/ IsNaN(b) THEN FALSE
    ELSE IF IsFin(a) /\ IsFin(b)
         THEN LET g == GCD(a.d, b.d)
              IN  a.n * (b.d \div g) < b.n * (a.d \div g)
    ELSE IF a.k = b.k THEN FALSE
    ELSE a.k = "ninf" \/ b.k = "pinf"

Gt(a, b) == Lt(b, a)
EqNum(a, b) == ~IsNaN(a) /\ ~IsNaN(b) /\ a = b
Le(a, b) == Lt(a, b) \/ EqNum(a, b)

Neg(a) ==
    CASE a.k = "nan" -> NaN
      [] a.k = "pinf" -> NInf
      [] a.k = "ninf" -> PInf
      [] OTHER -> [k |-> "fin", n |-> -a.n, d |-> a.d]

Add(a, b) ==
    IF IsNaN(a) \/ IsNaN(b) THEN NaN
    ELSE IF IsInf(a) /\ IsInf(b) THEN (IF a.k = b.k THEN a ELSE NaN)
    ELSE IF IsInf(a) THEN a
    ELSE IF IsInf(b) THEN b
    ELSE LET g == GCD(a.d, b.d)
         IN  Fin(a.n * (b.d \div g) + b.n * (a.d \div g), (a.d \div g) * b.d)

Sub(a, b) == Add(a, Neg(b))

Mul(a, b) ==
    IF IsNaN(a) \/ IsNaN(b) THEN NaN
    ELSE IF IsInf(a) \/ IsInf(b)
         THEN (IF Sign(a) * Sign(b) = 0 THEN NaN ELSE Signed(Sign(a) * Sign(b)))
    ELSE LET g1 == GCD(Abs(a.n), b.d)
             g2 == GCD(Abs(b.n), a.d)
         IN  Fin((a.n \div g1) * (b.n \div g2), (a.d \div g2) * (b.d \div g1))

\* numpy division: x/0 is +-inf, 0/0 is NaN, nothing is raised
Div(a, b) ==
    IF IsNaN(a) \/ IsNaN(b) THEN NaN
    ELSE IF IsInf(b) THEN (IF IsInf(a) THEN NaN ELSE Zero)
    ELSE IF b.n = 0 THEN (IF Sign(a) = 0 THEN NaN ELSE Signed(Sign(a)))
    ELSE IF IsInf(a) THEN Signed(Sign(a) * Sign(b))
    ELSE Mul(a, [k |-> "fin", n |-> Sign(b) * b.d, d |-> Abs(b.n)])

\* Python's built-in min(a, b): b only when b < a, so min(nan, x) is nan
\* and min(x, nan) is x
pyMin(a, b) == IF Lt(b, a) THEN b ELSE a

\* Python's built-in max(a, b): b only when b > a
pyMax(a, b) == IF Gt(b, a) THEN b ELSE a

\* pandas.notna
notna(a) == ~IsNaN(a)

\* r.get(key, default) on a row (a Series or a dict)
Get(row, key, default) == IF key \in DOMAIN row THEN row[key] ELSE default

-----------------------------------------------------------------------------
(* Tables.  A DataFrame is its set of columns and its rows in order; a row
   maps every column to its cell and "idx" to its index label.  A missing
   string cell is NA, a missing date is NaT; dates are day numbers. *)

NA == "<NA>"
NaT == -1

NoTable == [columns |-> {}, rows |-> <<>>]
NoSelection ==
    [date_range |-> <<>>, countries |-> <<>>, clades |-> <<>>, notes |-> <<>>]

Range(f) == {f[x] : x \in DOMAIN f}

\* df.index
IndexOf(df) == {df.rows[i].idx : i \in 1..Len(df.rows)}

\* the row of df with index label l
RowAt(df, l) == df.rows[CHOOSE i \in 1..Len(df.rows) : df.rows[i].idx = l]

\* truth value of a list, a tuple or None (None is the empty tuple)
Truthy(x) == Len(x) > 0

-----------------------------------------------------------------------------
(* Filter engine: utils/data.py, filter_data *)

\* a mask over RangeIndex(len(df)) in place of df.index
MaskAll_range(df) == [l \in 1..Len(df.rows) |-> TRUE]

\* mask = pd.Series(True, index=df.index)
MaskAll(df) == [l \in IndexOf(df) |-> TRUE]

\* between(..., inclusive="neither")
between_neither(d, start_dt, end_dt) == d # NaT /\ start_dt < d /\ d < end_dt

\* Series.between(start_dt, end_dt, inclusive="both"), for one cell;
\* NaT compares False
between(d, start_dt, end_dt) == d # NaT /\ start_dt <= d /\ d <= end_dt

\* the negated membership test
isin_not(x, values) == ~(\E i \in 1..Len(values) : values[i] = x)

\* Series.isin(values), for one cell
isin(x, values) == \E i \in 1..Len(values) : values[i] = x

\* mask &= series: aligned on the index labels; a label one side lacks
\* is False
MaskAnd(mask, series) ==
    [l \in DOMAIN mask \cup DOMAIN series |->
        l \in DOMAIN mask /\ l \in DOMAIN series /\ mask[l] /\ series[l]]

RECURSIVE SelectRows(_, _)
SelectRows(rows, mask) ==
    IF rows = <<>> THEN <<>>
    ELSE LET h == Head(rows)
         IN  IF h.idx \in DOMAIN mask /\ mask[h.idx]
             THEN <<h>> \o SelectRows(Tail(rows), mask)
             ELSE SelectRows(Tail(rows), mask)

\* df[mask].copy(): the rows whose label the mask marks True, in order
BoolIndex(df, mask) == [columns |-> df.columns, rows |-> SelectRows(df.rows, mask)]

filter_data(df, date_range, countries, clades, notes) ==
    LET mask0 == MaskAll(df)
        mask1 == IF Truthy(date_range) /\ "report_date" \in df.columns
                 THEN MaskAnd(mask0,
                        [l \in IndexOf(df) |->
                            between(RowAt(df, l).report_date, date_range[1], date_range[2])])
                 ELSE mask0
        mask2 == IF Truthy(countries) /\ "country" \in df.columns
                 THEN MaskAnd(mask1,
                        [l \in IndexOf(df) |-> isin(RowAt(df, l).country, countries)])
                 ELSE mask1
        mask3 == IF Truthy(clades) /\ "clade" \in df.columns
                 THEN MaskAnd(mask2,
                        [l \in IndexOf(df) |-> isin(RowAt(df, l).clade, clades)])
                 ELSE mask2
        mask4 == IF Truthy(notes) /\ "surveillance_notes" \in df.columns
                 THEN MaskAnd(mask3,
                        [l \in IndexOf(df) |->
                            isin(RowAt(df, l).surveillance_notes, notes)])
                 ELSE mask3
    IN  BoolIndex(df, mask4)

-----------------------------------------------------------------------------
(* Sidebar: app.py, build_sidebar.  The options each widget offers and the
   selections the widgets can return for a table. *)

ColumnValues(df, col) == {df.rows[i][col] : i \in 1..Len(df.rows)}

\* "report_date" in df.columns and not df["report_date"].isna().all()
HasDates(df) ==
    "report_date" \in df.columns /\ ColumnValues(df, "report_date") \ {NaT} # {}

\* df["country"].dropna().unique()
all_countries(df) ==
    IF "country" \in df.columns THEN ColumnValues(df, "country") \ {NA} ELSE {}

\* df["clade"].fillna("Unknown").unique()
all_clades(df) ==
    IF "clade" \in df.columns
    THEN {IF v = NA THEN "Unknown" ELSE v : v \in ColumnValues(df, "clade")}
    ELSE {}

\* df["surveillance_notes"].dropna().unique()
all_notes(df) ==
    IF "surveillance_notes" \in df.columns
    THEN ColumnValues(df, "surveillance_notes") \ {NA}
    ELSE {}

\* what a multiselect over the options can return: the chosen options,
\* each once, in any order
Lists(options) ==
    {l \in UNION {[1..n -> options] : n \in 0..Cardinality(options)} :
        \A i, j \in DOMAIN l : i # j => l[i] # l[j]}

-----------------------------------------------------------------------------
(* Priority score: insights_view.py, score_row *)

Eps == Fin(1, 1000000)

\* s += min(r.get("total_cases", 0) / 10000.0, 1.0) * 25
ScoreCases(row) ==
    Mul(pyMin(Div(Get(row, "total_cases", Zero), F(10000)), One), F(25))

\* s += min(r.get("cfr_percent", 0) / 5.0, 1.0) * 25
ScoreCfr(row) ==
    Mul(pyMin(Div(Get(row, "cfr_percent", Zero), F(5)), One), F(25))

\* the gap sub-score without the reciprocal: more capacity scores higher
GapPerCase_direct(x) ==
    Mul(Div(pyMin(pyMax(x, Eps), F(10)), F(10)), F(15))

\* min(1.0 / max(x, 1e-6), 10) / 10 * 15
GapPerCase(x) ==
    Mul(Div(pyMin(Div(One, pyMax(x, Eps)), F(10)), F(10)), F(15))

\* max(0.0, (1.5 - min(per1000 / 1000.0, 3.0))) / 1.5 * 10
EquityAllocation(per1000) ==
    Mul(Div(pyMax(Zero, Sub(Fin(3, 2), pyMin(Div(per1000, F(1000)), F(3)))),
            Fin(3, 2)), F(10))

\* the growth sub-score with the weight of the gap sub-scores
TrendGrowth_w15(g) == Mul(pyMax(Zero, pyMin(g, One)), F(15))

\* max(0.0, min(g, 1.0)) * 10
TrendGrowth(g) == Mul(pyMax(Zero, pyMin(g, One)), F(10))

\* the clamp written min(max(s, 0.0), 100.0), which keeps a NaN
ClampScore_minmax(s) == pyMin(pyMax(s, Zero), F(100))

\* return max(0.0, min(100.0, s))
ClampScore(s) == pyMax(Zero, pyMin(F(100), s))

score_row(row) ==
    LET s1 == Add(Zero, ScoreCases(row))
        s2 == Add(s1, ScoreCfr(row))
        dep == Get(row, "deployed_per_case", NaN)
        s3 == IF notna(dep) THEN Add(s2, GapPerCase(dep)) ELSE s2
        surv == Get(row, "surveillance_per_case", NaN)
        s4 == IF notna(surv) THEN Add(s3, GapPerCase(surv)) ELSE s3
        per1000 == Get(row, "allocation_per_1000", NaN)
        s5 == IF notna(per1000) THEN Add(s4, EquityAllocation(per1000)) ELSE s4
        g == Get(row, "growth4w", Zero)
        s6 == IF notna(g) THEN Add(s5, TrendGrowth(g)) ELSE s5
    IN  ClampScore(s6)

\* score_components(r): the six sub-scores of the drill-down chart
score_components(row) ==
    LET dep == Get(row, "deployed_per_case", NaN)
        surv == Get(row, "surveillance_per_case", NaN)
        per1000 == Get(row, "allocation_per_1000", NaN)
        g == Get(row, "growth4w", Zero)
    IN  [burden_cases |-> ScoreCases(row),
         burden_cfr |-> ScoreCfr(row),
         gap_chw_per_case |-> IF notna(dep) THEN GapPerCase(dep) ELSE Zero,
         gap_surveillance_per_case |-> IF notna(surv) THEN GapPerCase(surv) ELSE Zero,
         equity_allocation |-> IF notna(per1000) THEN EquityAllocation(per1000) ELSE Zero,
         trend_growth |-> IF notna(g) THEN TrendGrowth(g) ELSE Zero]

-----------------------------------------------------------------------------
(* Country aggregation: insights_view.py, insights_tab lines 22-75 *)

\* the order pandas sorts the model's country names in
CountryOrder == <<"Kenya", "Uganda">>

\* the set s of numbers as an ascending sequence
RECURSIVE SortedSeq(_)
SortedSeq(s) ==
    IF s = {} THEN <<>>
    ELSE LET m == CHOOSE x \in s : \A y \in s : x <= y
         IN  <<m>> \o SortedSeq(s \ {m})

\* the keys of df.groupby("country"): the countries present, sorted; rows
\* without a country belong to no group
GroupKeys(df) ==
    SelectSeq(CountryOrder, LAMBDA c : \E i \in 1..Len(df.rows) : df.rows[i].country = c)

GroupOf(rows, c) == SelectSeq(rows, LAMBDA row : row.country = c)

\* Series.sum(): NaN cells are skipped, the sum of no cell is 0
RECURSIVE SumCells(_, _)
SumCells(rows, col) ==
    IF rows = <<>> THEN Zero
    ELSE LET v == Head(rows)[col]
         IN  IF IsNaN(v) THEN SumCells(Tail(rows), col)
             ELSE Add(v, SumCells(Tail(rows), col))

\* Series.max(): NaN cells are skipped, the max of no cell is NaN
RECURSIVE MaxCells(_, _)
MaxCells(rows, col) ==
    IF rows = <<>> THEN NaN
    ELSE LET v == Head(rows)[col]
             m == MaxCells(Tail(rows), col)
         IN  IF IsNaN(v) THEN m
             ELSE IF IsNaN(m) \/ Lt(m, v) THEN v ELSE m

\* Series.replace(0, np.nan), for one cell
ReplaceZero(a) == IF a = Zero THEN NaN ELSE a

\* Series.replace([np.inf, -np.inf], np.nan), for one cell
ReplaceInf(a) == IF IsInf(a) THEN NaN ELSE a

\* ("<col>", "sum") if "<col>" in agg.columns else ("confirmed_cases", "sum")
SumOrProxy(df, g, col) ==
    IF col \in df.columns THEN SumCells(g, col) ELSE SumCells(g, "confirmed_cases")

\* one row of country_latest: the sums of lines 52-63 and the ratios of
\* lines 64-69
InsightsAggRow(df, c) ==
    LET g == GroupOf(df.rows, c)
        total_cases == SumCells(g, "confirmed_cases")
        total_deaths == SumOrProxy(df, g, "deaths")
        allocated == SumOrProxy(df, g, "vaccine_dose_allocated")
        administered == SumOrProxy(df, g, "vaccinations_administered")
        deployed_chws == SumOrProxy(df, g, "deployed_chws")
        sites == SumOrProxy(df, g, "active_surveillance_sites")
        labs == SumOrProxy(df, g, "testing_laboratries")
    IN  [country |-> c,
         total_cases |-> total_cases,
         total_deaths |-> total_deaths,
         allocated |-> allocated,
         deployed |-> SumOrProxy(df, g, "vaccine_dose_deployed"),
         administered |-> administered,
         trained |-> SumOrProxy(df, g, "trained_chws"),
         deployed_chws |-> deployed_chws,
         sites |-> sites,
         labs |-> labs,
         latest_coverage |-> IF "vaccine_coverage" \in df.columns
                             THEN MaxCells(g, "vaccine_coverage")
                             ELSE SumCells(g, "confirmed_cases"),
         cfr_percent |-> Mul(Div(total_deaths, total_cases), F(100)),
         deployed_per_case |-> Div(deployed_chws, ReplaceZero(total_cases)),
         surveillance_per_case |-> Div(Add(sites, labs), ReplaceZero(total_cases)),
         uptake_rate_pct |-> Mul(ReplaceInf(Div(administered, allocated)), F(100)),
         allocation_per_1000 |-> Mul(Div(allocated, total_cases), F(1000))]

\* to_period("W-SUN").start_time: the Monday of the day's week (day 1 is a
\* Monday)
WeekStart(d) == d - ((d - 1) % 7)

\* the rows of a group that carry a date
Dated(g) == SelectSeq(g, LAMBDA row : row.report_date # NaT)

\* lines 29-30: per week of the country, the sum of weekly_new_cases
WeeklySupplied(df, c) ==
    IF "report_date" \notin df.columns THEN <<>>
    ELSE LET g == Dated(GroupOf(df.rows, c))
             weeks == SortedSeq({WeekStart(g[i].report_date) : i \in 1..Len(g)})
         IN  [k \in 1..Len(weeks) |->
                SumCells(SelectSeq(g, LAMBDA row : WeekStart(row.report_date) = weeks[k]),
                         "weekly_new_cases")]

\* lines 32-48: per day the sum of confirmed_cases; the series counts as
\* cumulative when at least 80% of its day-to-day changes are >= 0 and is
\* then differenced (floored at 0); the incidents are summed per week
WeeklyDerived(df, c) ==
    LET g == Dated(GroupOf(df.rows, c))
        days == SortedSeq({g[i].report_date : i \in 1..Len(g)})
        daily == [k \in 1..Len(days) |->
                    SumCells(SelectSeq(g, LAMBDA row : row.report_date = days[k]),
                             "confirmed_cases")]
        diffs == [k \in 1..Len(days) |->
                    IF k = 1 THEN Zero ELSE Sub(daily[k], daily[k - 1])]
        nonneg == Cardinality({k \in 1..Len(days) : Le(Zero, diffs[k])})
        cumulative == nonneg * 5 >= Len(days) * 4
        incident == [k \in 1..Len(days) |->
                       IF cumulative
                       THEN (IF Lt(diffs[k], Zero) THEN Zero ELSE diffs[k])
                       ELSE daily[k]]
        weeks == SortedSeq({WeekStart(days[k]) : k \in 1..Len(days)})
        RECURSIVE SumOver(_)
        SumOver(ks) ==
            IF ks = {} THEN Zero
            ELSE LET k == CHOOSE x \in ks : TRUE
                 IN  Add(incident[k], SumOver(ks \ {k}))
    IN  [w \in 1..Len(weeks) |->
            SumOver({k \in 1..Len(days) : WeekStart(days[k]) = weeks[w]})]

\* which weekly frame lines 28-51 build: "supplied", "derived" or "none"
WeeklyKind(df) ==
    IF "weekly_new_cases" \in df.columns THEN "supplied"
    ELSE IF "report_date" \in df.columns
            /\ \E i \in 1..Len(df.rows) :
                  df.rows[i].report_date # NaT /\ df.rows[i].country # NA
         THEN "derived"
    ELSE "none"

\* the weekly_new_cases of country c in the weekly frame, ordered by week
WeeklySeries(df, c) ==
    CASE WeeklyKind(df) = "supplied" -> WeeklySupplied(df, c)
      [] WeeklyKind(df) = "derived" -> WeeklyDerived(df, c)
      [] OTHER -> <<>>

\* weekly is not None and not weekly.empty
HasWeekly(df) ==
    \E k \in 1..Len(GroupKeys(df)) : WeeklySeries(df, GroupKeys(df)[k]) # <<>>

\* the growth over the whole series, however long
Growth4w_whole(series) ==
    Div(Sub(series[Len(series)], series[1]), pyMax(series[1], One))

\* lines 73-74: over the last 4 weekly rows of the country,
\* (s.iloc[-1] - s.iloc[0]) / max(s.iloc[0], 1)
Growth4w(series) ==
    LET n == Len(series)
        first == series[IF n > 4 THEN n - 3 ELSE 1]
        last == series[n]
    IN  Div(Sub(last, first), pyMax(first, One))

\* country_latest after the left merge of line 75: a country without
\* weekly rows gets NaN; without a weekly frame there is no growth4w column
WithGrowth(df, row) ==
    IF ~HasWeekly(df) THEN row
    ELSE LET series == WeeklySeries(df, row.country)
         IN  row @@ ("growth4w" :> IF series = <<>> THEN NaN ELSE Growth4w(series))

\* country_latest with its priority_score column (line 95), in group order
CountryLatest(df) ==
    LET keys == GroupKeys(df)
    IN  [k \in 1..Len(keys) |->
            LET row == WithGrowth(df, InsightsAggRow(df, keys[k]))
            IN  row @@ ("priority_score" :> score_row(row))]

\* sort_values("priority_score", ascending=False): insertion of each row
\* after the rows that score at least as much (ties keep their order)
RECURSIVE SortByScore(_)
SortByScore(rows) ==
    IF rows = <<>> THEN <<>>
    ELSE LET rest == SortByScore(SubSeq(rows, 1, Len(rows) - 1))
             x == rows[Len(rows)]
             before == SelectSeq(rest, LAMBDA y : Le(x.priority_score, y.priority_score))
             after == SelectSeq(rest, LAMBDA y : ~Le(x.priority_score, y.priority_score))
         IN  before \o <<x>> \o after

\* only the CFR rule, and nothing when it does not trigger
rec_for_row_cfr_only(row) ==
    IF Gt(Get(row, "cfr_percent", Zero), F(3))
    THEN <<"Investigate drivers of high CFR; ensure timely care, oxygen, and antivirals.">>
    ELSE <<>>

\* the recommendation rules of insights_tab, in the order they are tried
rec_for_row(row) ==
    LET recs ==
            (IF Gt(Get(row, "cfr_percent", Zero), F(3))
             THEN <<"Investigate drivers of high CFR; ensure timely care, oxygen, and antivirals.">>
             ELSE <<>>)
         \o (IF Lt(Get(row, "deployed_per_case", F(1000000000)), Fin(1, 2))
             THEN <<"Surge deploy CHWs; target <500 cases per deployed CHW.">>
             ELSE <<>>)
         \o (IF Lt(Get(row, "surveillance_per_case", F(1000000000)), Fin(1, 50))
             THEN <<"Expand active sites and labs; aim for higher sites/labs per case.">>
             ELSE <<>>)
         \o (IF Lt(Get(row, "allocation_per_1000", F(2000000000)), F(2000))
             THEN <<"Advocate for additional vaccine allocation aligned to burden.">>
             ELSE <<>>)
         \o (IF Lt(Get(row, "uptake_rate_pct", F(100)), F(70))
             THEN <<"Address last-mile bottlenecks; microplanning and outreach to raise uptake.">>
             ELSE <<>>)
    IN  IF Len(recs) = 0
        THEN <<"Maintain current response; continue monitoring trends and capacity.">>
        ELSE recs

\* the alert badges shown for the selected country
alerts_for(row) ==
       (IF Gt(Get(row, "cfr_percent", Zero), F(3)) THEN <<"High CFR">> ELSE <<>>)
    \o (IF Lt(Get(row, "allocation_per_1000", F(999999)), F(2000))
        THEN <<"Under-allocated">> ELSE <<>>)
    \o (IF Lt(Get(row, "deployed_per_case", F(999)), Fin(1, 2))
        THEN <<"Low CHW coverage">> ELSE <<>>)
    \o (IF Lt(Get(row, "surveillance_per_case", F(999)), Fin(1, 50))
        THEN <<"Low surveillance">> ELSE <<>>)

\* rec_view: one row per country of top, with its recommendations
RecView(top) ==
    [k \in 1..Len(top) |->
        [country |-> top[k].country, priority_score |-> top[k].priority_score,
         recommendations |-> rec_for_row(top[k])]]

-----------------------------------------------------------------------------
(* Country summary of the recommendations tab: recommendations.py 11-66 *)

\* ("report_date", "count"): the dated rows of the group
CountCells(g) == F(Len(Dated(g)))

\* ("<col>", "sum") if "<col>" in agg.columns else ("report_date", "count")
SumOrCount(df, g, col) ==
    IF col \in df.columns THEN SumCells(g, col) ELSE CountCells(g)

\* one row of the summary: the aggregates of lines 16-28 and the ratios of
\* lines 29-34
SummaryRow(df, c) ==
    LET g == GroupOf(df.rows, c)
        total_cases == SumOrCount(df, g, "confirmed_cases")
        total_deaths == SumOrCount(df, g, "deaths")
        allocated == SumOrCount(df, g, "vaccine_dose_allocated")
        administered == SumOrCount(df, g, "vaccinations_administered")
        deployed_chws == SumOrCount(df, g, "deployed_chws")
        sites == SumOrCount(df, g, "active_surveillance_sites")
        labs == SumOrCount(df, g, "testing_laboratries")
    IN  [country |-> c,
         total_cases |-> total_cases,
         total_deaths |-> total_deaths,
         allocated |-> allocated,
         deployed |-> SumOrCount(df, g, "vaccine_dose_deployed"),
         administered |-> administered,
         trained |-> SumOrCount(df, g, "trained_chws"),
         deployed_chws |-> deployed_chws,
         sites |-> sites,
         labs |-> labs,
         latest_coverage |-> IF "vaccine_coverage" \in df.columns
                             THEN MaxCells(g, "vaccine_coverage")
                             ELSE CountCells(g),
         cfr_percent |-> Mul(Div(total_deaths, total_cases), F(100)),
         deployed_per_case |-> Div(deployed_chws, total_cases),
         surveillance_per_case |-> Div(Add(sites, labs), total_cases),
         uptake_rate_pct |-> Mul(Div(administered, allocated), F(100)),
         allocation_per_1000 |-> Mul(Div(allocated, total_cases), F(1000))]

\* the columns whose absence makes the aggregation fall back to a count of
\* report_date
SummarySources ==
    {"confirmed_cases", "deaths", "vaccine_dose_allocated", "vaccine_dose_deployed",
     "vaccinations_administered", "trained_chws", "deployed_chws",
     "active_surveillance_sites", "testing_laboratries", "vaccine_coverage"}

CountrySummary(df) ==
    LET keys == GroupKeys(df)
    IN  [k \in 1..Len(keys) |-> SummaryRow(df, keys[k])]

\* the rules as alternatives: the first that triggers ends the evaluation
recommendations_first_only(row) ==
    IF Gt(Get(row, "cfr_percent", Zero), F(3))
    THEN <<"Clinical: Investigate high CFR; ensure rapid referral, oxygen, antivirals, IPC training.">>
    ELSE IF Lt(Get(row, "deployed_per_case", F(1000000000)), Fin(1, 2))
    THEN <<"Workforce: Surge deploy CHWs; target <500 cases per deployed CHW; mobile teams for hotspots.">>
    ELSE IF Lt(Get(row, "surveillance_per_case", F(1000000000)), Fin(1, 50))
    THEN <<"Surveillance: Expand active sites/labs; improve sample transport and reporting cadence.">>
    ELSE IF Lt(Get(row, "allocation_per_1000", F(2000000000)), F(2000))
    THEN <<"Allocation: Advocate for doses aligned to burden; prioritize high-risk geographies.">>
    ELSE IF Lt(Get(row, "uptake_rate_pct", F(100)), F(70))
    THEN <<"Uptake: Address last-mile constraints; microplanning, outreach, community engagement.">>
    ELSE IF IsNaN(Get(row, "latest_coverage", NaN))
    THEN <<"Data: Improve coverage reporting frequency and completeness.">>
    ELSE <<"Maintain current strategy; continue monitoring and targeted micro-adjustments.">>

\* the rules of _recommendations_for_row, in the order they are tried
recommendations_for_row(row) ==
    LET recs ==
            (IF Gt(Get(row, "cfr_percent", Zero), F(3))
             THEN <<"Clinical: Investigate high CFR; ensure rapid referral, oxygen, antivirals, IPC training.">>
             ELSE <<>>)
         \o (IF Lt(Get(row, "deployed_per_case", F(1000000000)), Fin(1, 2))
             THEN <<"Workforce: Surge deploy CHWs; target <500 cases per deployed CHW; mobile teams for hotspots.">>
             ELSE <<>>)
         \o (IF Lt(Get(row, "surveillance_per_case", F(1000000000)), Fin(1, 50))
             THEN <<"Surveillance: Expand active sites/labs; improve sample transport and reporting cadence.">>
             ELSE <<>>)
         \o (IF Lt(Get(row, "allocation_per_1000", F(2000000000)), F(2000))
             THEN <<"Allocation: Advocate for doses aligned to burden; prioritize high-risk geographies.">>
             ELSE <<>>)
         \o (IF Lt(Get(row, "uptake_rate_pct", F(100)), F(70))
             THEN <<"Uptake: Address last-mile constraints; microplanning, outreach, community engagement.">>
             ELSE <<>>)
         \o (IF IsNaN(Get(row, "latest_coverage", NaN))
             THEN <<"Data: Improve coverage reporting frequency and completeness.">>
             ELSE <<>>)
    IN  IF Len(recs) = 0
        THEN <<"Maintain current strategy; continue monitoring and targeted micro-adjustments.">>
        ELSE recs

\* the features _assign_personas clusters on, NaN filled with 0
feat_cols ==
    <<"total_cases", "cfr_percent", "deployed_per_case", "surveillance_per_case",
      "allocation_per_1000", "uptake_rate_pct">>

\* the number of clusters _assign_personas asks KMeans for
n_clusters(n_countries) ==
    IF n_countries < 4
    THEN (IF n_countries > 2 THEN n_countries ELSE 2)
    ELSE 4

\* StandardScaler and KMeans accept the summary: at least one row, no
\* infinite feature, and no more clusters than rows (n_clusters is
\* max(2, n) below 4 rows, 4 otherwise)
PersonasFit(out) ==
    /\ Len(out) >= 1
    /\ n_clusters(Len(out)) <= Len(out)
    /\ \A k \in 1..Len(out) : \A f \in 1..Len(feat_cols) :
          ~IsInf(out[k][feat_cols[f]])

-----------------------------------------------------------------------------
(* SpecScore: score_row applied to aggregate rows drawn from bounded sets *)

CasesVals == {NaN, NInf, F(-5000), Zero, F(5000), F(10000), PInf}
CfrVals == {NaN, NInf, F(-1), Zero, Fin(5, 2), F(5), PInf}
DepVals == {NaN, F(-1), Zero, Fin(1, 20), Fin(3, 10), F(2), PInf}
SurvVals == {NaN, Zero, Fin(1, 20), Fin(1, 5), PInf}
AllocVals == {NaN, NInf, F(-1500), Zero, F(1500), F(5000), PInf}
GrowthVals == {NaN, NInf, Zero, Fin(1, 5), F(2)}

ScoreRows ==
    [total_cases : CasesVals, cfr_percent : CfrVals, deployed_per_case : DepVals,
     surveillance_per_case : SurvVals, allocation_per_1000 : AllocVals,
     growth4w : GrowthVals]
    \cup
    [total_cases : CasesVals, cfr_percent : CfrVals, deployed_per_case : DepVals,
     surveillance_per_case : SurvVals, allocation_per_1000 : AllocVals]

NoComps ==
    [burden_cases |-> NaN, burden_cfr |-> NaN, gap_chw_per_case |-> NaN,
     gap_surveillance_per_case |-> NaN, equity_allocation |-> NaN,
     trend_growth |-> NaN]

InitScore ==
    /\ pc = "row"
    /\ r \in ScoreRows
    /\ priority_score = NaN
    /\ comps = NoComps
    /\ table = NoTable
    /\ sel = NoSelection
    /\ filtered = NoTable
    /\ TabsIdle
    /\ AuxIdle

\* country_latest["priority_score"] = country_latest.apply(score_row, axis=1)
ScoreRow ==
    /\ pc = "row"
    /\ priority_score' = score_row(r)
    /\ pc' = "scored"
    /\ UNCHANGED <<r, comps, table, sel, filtered, tabVars, auxVars>>

\* comps = score_components(sel_row)
ScoreComponents ==
    /\ pc = "scored"
    /\ comps' = score_components(r)
    /\ pc' = "components"
    /\ UNCHANGED <<r, priority_score, table, sel, filtered, tabVars, auxVars>>

NextScore == ScoreRow \/ ScoreComponents

SpecScore == InitScore /\ [][NextScore]_vars

Scored == pc \in {"scored", "components"}

-----------------------------------------------------------------------------
\* C1: score_row returns a value in [0, 100] for every aggregate row,
\* also when inputs are NaN, infinite, zero or negative.
ScoreBounded ==
    Scored => Le(Zero, priority_score) /\ Le(priority_score, F(100))

\* a scored row with an unknown, an infinite, a zero and a negative input
ScoreBoundedWitness ==
    /\ pc = "scored"
    /\ IsNaN(r.cfr_percent)
    /\ r.total_cases = PInf
    /\ r.deployed_per_case = Zero
    /\ Lt(r.allocation_per_1000, Zero)
    /\ priority_score = F(100)

-----------------------------------------------------------------------------
(* The score formula of the specification, written with the mathematical
   min and max of two known values. *)
mMin(a, b) == IF Lt(a, b) THEN a ELSE b
mMax(a, b) == IF Lt(a, b) THEN b ELSE a

FormulaGap(x) == Mul(Div(mMin(Div(One, mMax(x, Eps)), F(10)), F(10)), F(15))

FormulaSum(row) ==
    Add(Add(Add(Add(Add(
        Mul(mMin(Div(row.total_cases, F(10000)), One), F(25)),
        Mul(mMin(Div(row.cfr_percent, F(5)), One), F(25))),
        FormulaGap(row.deployed_per_case)),
        FormulaGap(row.surveillance_per_case)),
        Mul(Div(mMax(Zero, Sub(Fin(3, 2), mMin(Div(row.allocation_per_1000, F(1000)), F(3)))),
                Fin(3, 2)), F(10))),
        Mul(mMax(Zero, mMin(row.growth4w, One)), F(10)))

AllKnown(row) ==
    /\ "growth4w" \in DOMAIN row
    /\ \A key \in DOMAIN row : notna(row[key])

ExampleRow ==
    [total_cases |-> F(10000), cfr_percent |-> F(5), deployed_per_case |-> F(2),
     surveillance_per_case |-> Fin(1, 20), allocation_per_1000 |-> F(1500),
     growth4w |-> Fin(1, 5)]

SaturatedRow ==
    [total_cases |-> F(10000), cfr_percent |-> F(5), deployed_per_case |-> Fin(1, 20),
     surveillance_per_case |-> Fin(1, 20), allocation_per_1000 |-> Zero,
     growth4w |-> F(2)]

SumComps(c) ==
    Add(Add(Add(Add(Add(c.burden_cases, c.burden_cfr), c.gap_chw_per_case),
        c.gap_surveillance_per_case), c.equity_allocation), c.trend_growth)

\* C4: for a row whose six inputs are all known, score_row is the sum of the
\* six sub-scores of the formula clamped to [0, 100]; the example row scores
\* 67.75 and the six sub-scores at saturation are 25, 25, 15, 15, 10, 10.
ScoreFormula ==
    /\ (Scored /\ AllKnown(r) /\ notna(FormulaSum(r)))
          => priority_score = mMax(Zero, mMin(F(100), FormulaSum(r)))
    /\ (Scored /\ r = ExampleRow) => priority_score = Fin(271, 4)
    /\ (pc = "components" /\ r = SaturatedRow)
          => /\ comps = [burden_cases |-> F(25), burden_cfr |-> F(25),
                         gap_chw_per_case |-> F(15),
                         gap_surveillance_per_case |-> F(15),
                         equity_allocation |-> F(10), trend_growth |-> F(10)]
             /\ SumComps(comps) = F(100)
             /\ priority_score = F(100)

\* the example row, scored and broken down into its sub-scores
ScoreFormulaWitness ==
    /\ pc = "components"
    /\ r = ExampleRow
    /\ priority_score = Fin(271, 4)
    /\ comps.gap_chw_per_case = Fin(3, 4)
    /\ comps.trend_growth = F(2)

-----------------------------------------------------------------------------
\* C5: with the other inputs fixed, a larger cfr_percent never scores lower
\* and a larger deployed_per_case never scores higher.
ScoreMonotonic ==
    Scored =>
        /\ \A v \in CfrVals :
              Lt(r.cfr_percent, v)
                => Le(priority_score, score_row([r EXCEPT !.cfr_percent = v]))
        /\ \A v \in DepVals :
              Lt(r.deployed_per_case, v)
                => Le(score_row([r EXCEPT !.deployed_per_case = v]), priority_score)

\* a scored row below saturation whose score moves strictly both ways
ScoreMonotonicWitness ==
    /\ pc = "scored"
    /\ r.cfr_percent = Fin(5, 2)
    /\ r.deployed_per_case = Fin(3, 10)
    /\ Lt(priority_score, score_row([r EXCEPT !.cfr_percent = F(5)]))
    /\ Lt(score_row([r EXCEPT !.deployed_per_case = F(2)]), priority_score)

-----------------------------------------------------------------------------
(* SpecFilter: filter_data applied to the selections the sidebar can return
   for tables drawn from bounded sets *)

MaxRows == 2
MaxDay == 3

FilterColumns == {"country", "report_date", "clade", "surveillance_notes"}

MkRow(c, d, cl, n) ==
    [country |-> c, report_date |-> d, clade |-> cl, surveillance_notes |-> n]

SourceRows ==
    {MkRow("Kenya", 1, "Ib", "border screening"),
     MkRow("Kenya", 2, NA, NA),
     MkRow("Uganda", MaxDay, "Ib", NA),
     MkRow("Uganda", 2, "IIb", "contact tracing"),
     MkRow(NA, NaT, "Ib", "border screening")}

\* every filter column present, or one of them absent
ColumnSets == {FilterColumns} \cup {FilterColumns \ {c} : c \in FilterColumns}

\* the table with the given columns and source rows, labelled 1..n
MkTable(columns, rows) ==
    [columns |-> columns,
     rows |-> [i \in 1..Len(rows) |->
                 [c \in columns \cup {"idx"} |->
                     IF c = "idx" THEN i ELSE rows[i][c]]]]

Tables ==
    {MkTable(columns, rows) :
        columns \in ColumnSets,
        rows \in UNION {[1..n -> SourceRows] : n \in 0..MaxRows}}

\* the slider's bounds come from the session, so any range of days can be
\* returned; without a valid date no slider is shown and date_range is None
DateRanges(df) ==
    IF HasDates(df)
    THEN {d \in (1..MaxDay) \X (1..MaxDay) : d[1] <= d[2]}
    ELSE {<<>>}

Selections(df) ==
    [date_range : DateRanges(df), countries : Lists(all_countries(df)),
     clades : Lists(all_clades(df)), notes : Lists(all_notes(df))]

InitFilter ==
    /\ pc = "loaded"
    /\ table \in Tables
    /\ sel = NoSelection
    /\ filtered = NoTable
    /\ r = <<>>
    /\ priority_score = NaN
    /\ comps = NoComps
    /\ TabsIdle
    /\ AuxIdle

\* date_range, countries, clades, notes = build_sidebar(df), the widgets
\* returning one of the given selections
Sidebar(selections) ==
    /\ pc = "loaded"
    /\ sel' \in selections
    /\ pc' = "sidebar"
    /\ UNCHANGED <<table, filtered, r, priority_score, comps, tabVars, auxVars>>

BuildSidebar == Sidebar(Selections(table))

\* filtered = filter_data(df, date_range, countries, clades, notes)
FilterData ==
    /\ pc = "sidebar"
    /\ filtered' = filter_data(table, sel.date_range, sel.countries, sel.clades, sel.notes)
    /\ pc' = "filtered"
    /\ UNCHANGED <<table, sel, r, priority_score, comps, tabVars, auxVars>>

NextFilter == BuildSidebar \/ FilterData

SpecFilter == InitFilter /\ [][NextFilter]_vars

-----------------------------------------------------------------------------
\* C8: filter_data returns exactly the rows of the table, in their order,
\* that pass every specified dimension (date within [start, end] with both
\* ends included, country, clade and note in the chosen lists); a dimension
\* given as None or an empty list restricts nothing.
FilterExact ==
    pc = "filtered" =>
        LET Passes(row) ==
                /\ sel.date_range = <<>>
                      \/ /\ "report_date" \in table.columns
                         /\ row.report_date # NaT
                         /\ sel.date_range[1] <= row.report_date
                         /\ row.report_date <= sel.date_range[2]
                /\ sel.countries = <<>>
                      \/ /\ "country" \in table.columns
                         /\ row.country \in Range(sel.countries)
                /\ sel.clades = <<>>
                      \/ /\ "clade" \in table.columns
                         /\ row.clade \in Range(sel.clades)
                /\ sel.notes = <<>>
                      \/ /\ "surveillance_notes" \in table.columns
                         /\ row.surveillance_notes \in Range(sel.notes)
        IN  /\ filtered.rows = SelectSeq(table.rows, Passes)
            /\ filtered.columns = table.columns

\* a filtered table that keeps the rows dated on both ends of the range,
\* in the table's order
FilterExactWitness ==
    /\ pc = "filtered"
    /\ sel.date_range = <<1, 2>>
    /\ sel.clades = <<"IIb", "Ib">>
    /\ sel.countries = <<>>
    /\ Len(filtered.rows) = 2
    /\ filtered.rows[1].report_date = 2
    /\ filtered.rows[1].country = "Uganda"
    /\ filtered.rows[2].report_date = 1

-----------------------------------------------------------------------------
\* the allowed set of list l2 includes that of l1 (an empty list allows
\* everything)
WiderList(l1, l2) == l2 = <<>> \/ (l1 # <<>> /\ Range(l1) \subseteq Range(l2))

WiderRange(d1, d2) ==
    d2 = <<>> \/ (d1 # <<>> /\ d2[1] <= d1[1] /\ d1[2] <= d2[2])

\* the selections for df that differ from s in at most one dimension,
\* whose allowed set is widened
Widenings(df, s) ==
    {[s EXCEPT !.date_range = d] :
        d \in {x \in DateRanges(df) : WiderRange(s.date_range, x)}}
    \cup {[s EXCEPT !.countries = l] :
        l \in {x \in Lists(all_countries(df)) : WiderList(s.countries, x)}}
    \cup {[s EXCEPT !.clades = l] :
        l \in {x \in Lists(all_clades(df)) : WiderList(s.clades, x)}}
    \cup {[s EXCEPT !.notes = l] :
        l \in {x \in Lists(all_notes(df)) : WiderList(s.notes, x)}}

\* C9: widening the allowed set of one dimension returns a superset of the
\* rows, and the empty selection returns the unfiltered table.
FilterMonotonic ==
    pc = "filtered" =>
        /\ \A w \in Widenings(table, sel) :
              Range(filtered.rows) \subseteq
                  Range(filter_data(table, w.date_range, w.countries, w.clades, w.notes).rows)
        /\ sel = NoSelection => filtered = table

\* a selection that returns one row and has a widening that returns more,
\* and the empty selection applied to a table with rows
FilterMonotonicWitness ==
    \/ /\ pc = "filtered"
       /\ Len(filtered.rows) = 1
       /\ sel.countries = <<"Kenya">>
       /\ \E w \in Widenings(table, sel) :
             /\ w.countries = <<"Kenya", "Uganda">>
             /\ Len(filter_data(table, w.date_range, w.countries, w.clades, w.notes).rows) = 2
    \/ /\ pc = "filtered"
       /\ sel = NoSelection
       /\ Len(table.rows) = 2
       /\ filtered = table

-----------------------------------------------------------------------------
\* C10: filtering an already filtered table with the same selection returns
\* the same rows.
FilterIdempotent ==
    pc = "filtered" =>
        filter_data(filtered, sel.date_range, sel.countries, sel.clades, sel.notes)
            = filtered

\* a filtered table that lost its first row, so that its labels no longer
\* start at 1
FilterIdempotentWitness ==
    /\ pc = "filtered"
    /\ Len(table.rows) = 2
    /\ Len(filtered.rows) = 1
    /\ filtered.rows[1].idx = 2
    /\ sel.countries = <<"Uganda">>
    /\ sel.date_range # <<>>

-----------------------------------------------------------------------------
(* The tabs of one pass of main (app.py 147-166).  A tab that raises ends
   the pass: main's outer except reports the exception and nothing after
   the raising call is run. *)

TabNames ==
    <<"Findings", "Geography", "Vaccination", "Workforce", "Deep Dives",
      "Insights", "Recommendations">>

\* the exception findings_tab raises on df, NoError if it returns
FindingsError(df) ==
    LET cols == df.columns
        perCountry == "confirmed_cases" \in cols \/ "deployed_chws" \in cols
        geo == {"confirmed_cases", "deaths", "deployed_chws",
                "vaccinations_administered"} \ cols
        resp == {"deployed_chws", "confirmed_cases", "vaccinations_administered",
                 "active_surveillance_sites"} \ cols
    IN  IF perCountry /\ "country" \notin cols
        THEN Raise("KeyError", {"country"})
        ELSE IF perCountry /\ GroupKeys(df) = <<>>
        THEN Raise("ValueError", {})
        ELSE IF "country" \in cols /\ geo # {}
        THEN Raise("KeyError", geo)
        ELSE IF "country" \in cols /\ resp # {}
        THEN Raise("KeyError", resp)
        ELSE NoError

\* read_excel gives a column without any value a float dtype, on which the
\* .str accessor raises
StringDtype(loaded, col) ==
    \/ loaded.rows = <<>>
    \/ \E i \in 1..Len(loaded.rows) : loaded.rows[i][col] # NA

\* the exception deep_dives_tab raises on df, NoError if it returns
DeepDivesError(df, loaded) ==
    LET cols == df.columns
    IN  IF /\ "clade" \in cols
           /\ "weekly_new_cases" \notin cols
           /\ ("confirmed_cases" \notin cols \/ "deaths" \notin cols)
        THEN Raise("KeyError", {"weekly_new_cases"})
        ELSE IF /\ {"country", "clade", "confirmed_cases"} \subseteq cols
                /\ ~StringDtype(loaded, "clade")
        THEN Raise("AttributeError", {})
        ELSE NoError

\* the exception recommendations_tab raises on df, NoError if it returns
RecommendationsError(df) ==
    LET cols == df.columns
    IN  IF "country" \notin cols THEN NoError
        ELSE IF df.rows = <<>> THEN Raise("KeyError", {"country"})
        ELSE IF "report_date" \notin cols /\ SummarySources \ cols # {}
        THEN Raise("KeyError", {"report_date"})
        ELSE IF ~PersonasFit(CountrySummary(df)) THEN Raise("ValueError", {})
        ELSE NoError

\* the tab returned: the pass moves on
Returns(name, next) ==
    /\ rendered' = Append(rendered, name)
    /\ raised' = NoError
    /\ pc' = next

\* the tab raised: main's except block ends the pass
Raises(e) ==
    /\ raised' = e
    /\ pc' = "error"
    /\ UNCHANGED rendered

passVars == <<r, priority_score, table, sel, filtered, auxVars>>
insightsVars == <<country_latest, sel_row, comps, rec_view, alerts>>

FindingsTab ==
    /\ pc = "filtered"
    /\ IF FindingsError(filtered) = NoError
       THEN Returns("Findings", "geography")
       ELSE Raises(FindingsError(filtered))
    /\ UNCHANGED <<passVars, insightsVars, summary>>

GeographyTab ==
    /\ pc = "geography"
    /\ Returns("Geography", "vaccination")
    /\ UNCHANGED <<passVars, insightsVars, summary>>

VaccinationTab ==
    /\ pc = "vaccination"
    /\ Returns("Vaccination", "workforce")
    /\ UNCHANGED <<passVars, insightsVars, summary>>

WorkforceTab ==
    /\ pc = "workforce"
    /\ Returns("Workforce", "deep_dives")
    /\ UNCHANGED <<passVars, insightsVars, summary>>

DeepDivesTab ==
    /\ pc = "deep_dives"
    /\ IF DeepDivesError(filtered, table) = NoError
       THEN Returns("Deep Dives", "insights")
       ELSE Raises(DeepDivesError(filtered, table))
    /\ UNCHANGED <<passVars, insightsVars, summary>>

\* insights_tab: without its required columns it returns at once; with no
\* country group the drill-down has no row to select and raises; otherwise
\* the user picks the country of the drill-down.  The anomaly, what-if and
\* data-quality sections cannot end the tab (they catch their own failures
\* or divide by max(total_cases, 1)); what they display is not kept here.
InsightsTab ==
    /\ pc = "insights"
    /\ IF ~({"country", "confirmed_cases"} \subseteq filtered.columns)
       THEN /\ Returns("Insights", "recommendations")
            /\ UNCHANGED insightsVars
       ELSE IF GroupKeys(filtered) = <<>>
       THEN /\ \E exc \in {"ValueError", "IndexError"} : Raises(Raise(exc, {}))
            /\ UNCHANGED insightsVars
       ELSE LET top == SortByScore(CountryLatest(filtered))
            IN  /\ country_latest' = CountryLatest(filtered)
                /\ \E k \in 1..Len(top) :
                      /\ sel_row' = top[k]
                      /\ comps' = score_components(top[k])
                      /\ alerts' = alerts_for(top[k])
                /\ rec_view' = RecView(top)
                /\ Returns("Insights", "recommendations")
    /\ UNCHANGED <<passVars, summary>>

\* recommendations_tab: the summary of the countries the user selects, each
\* with its recommendations; with no country selected only the hint is
\* shown
RecommendationsTab ==
    /\ pc = "recommendations"
    /\ IF "country" \notin filtered.columns
       THEN /\ Returns("Recommendations", "preview")
            /\ UNCHANGED summary
       ELSE IF RecommendationsError(filtered) # NoError
       THEN /\ Raises(RecommendationsError(filtered))
            /\ UNCHANGED summary
       ELSE /\ \E chosen \in SUBSET Range(GroupKeys(filtered)) :
                 summary' =
                    [k \in 1..Len(SelectSeq(CountrySummary(filtered),
                                            LAMBDA row : row.country \in chosen)) |->
                        LET row == SelectSeq(CountrySummary(filtered),
                                             LAMBDA x : x.country \in chosen)[k]
                        IN  row @@ ("recommendations" :> recommendations_for_row(row))]
            /\ Returns("Recommendations", "preview")
    /\ UNCHANGED <<passVars, insightsVars>>

\* the data preview and the CSV download under the tabs
DataPreview ==
    /\ pc = "preview"
    /\ pc' = "done"
    /\ UNCHANGED <<passVars, insightsVars, summary, rendered, raised>>

-----------------------------------------------------------------------------
(* Spec: one pass of main over a loaded table, from the sidebar to the data
   preview.  Tables are drawn from a bounded set of records. *)

NumericFields ==
    {"confirmed_cases", "deaths", "vaccinations_administered",
     "active_surveillance_sites", "suspected_cases", "case_fatality_rate",
     "weekly_new_cases", "vaccine_dose_allocated", "vaccine_dose_deployed",
     "vaccine_coverage", "testing_laboratries", "trained_chws", "deployed_chws"}

AllColumns == FilterColumns \cup NumericFields

\* every canonical column but country, which every record carries
OptionalColumns == AllColumns \ {"country"}

\* a record: cases, deaths, doses allocated and administered, CHWs, sites
CaseRow(c, d, cl, n, cases, deaths, doses, given, chws, sites) ==
    [country |-> c, report_date |-> d, clade |-> cl, surveillance_notes |-> n,
     confirmed_cases |-> cases, deaths |-> deaths, suspected_cases |-> cases,
     case_fatality_rate |-> Mul(ReplaceInf(Div(deaths, cases)), F(100)),
     weekly_new_cases |-> cases,
     vaccine_dose_allocated |-> doses, vaccine_dose_deployed |-> doses,
     vaccinations_administered |-> given, vaccine_coverage |-> given,
     testing_laboratries |-> sites, trained_chws |-> chws,
     deployed_chws |-> chws, active_surveillance_sites |-> sites]

CaseRows ==
    {CaseRow("Kenya", 1, "Ib", "border screening",
             F(200), F(8), F(300), F(150), F(50), F(2)),
     CaseRow("Kenya", 8, NA, NA, Zero, Zero, Zero, Zero, Zero, Zero),
     CaseRow("Kenya", 15, "Ib", NA,
             F(1000), F(10), F(5000), F(4000), F(600), F(30)),
     CaseRow("Uganda", 1, NA, NA, Zero, F(1), F(100), Zero, F(4), F(1)),
     CaseRow("Uganda", 9, "IIb", NA, NaN, NaN, NaN, NaN, NaN, NaN),
     CaseRow(NA, NaT, "Ib", NA, F(50), F(1), F(50), F(10), F(5), F(1))}

\* every column present, one optional column absent, or only a few present
CaseColumnSets ==
    {AllColumns}
    \cup {AllColumns \ {c} : c \in OptionalColumns}
    \cup {{"country", "confirmed_cases"}, {"country", "clade"}, OptionalColumns}

CaseTables ==
    {MkTable(columns, rows) :
        columns \in CaseColumnSets,
        rows \in UNION {[1..n -> CaseRows] : n \in 0..MaxRows}}

\* the slider spans the dates of the table until the user moves it
DefaultSelection(df) ==
    LET days == ColumnValues(df, "report_date") \ {NaT}
    IN  [date_range |-> IF HasDates(df)
                        THEN <<CHOOSE d \in days : \A e \in days : d <= e,
                               CHOOSE d \in days : \A e \in days : e <= d>>
                        ELSE <<>>,
         countries |-> <<>>, clades |-> <<>>, notes |-> <<>>]

\* the untouched sidebar, or one widget set to a single value
SingleSelections(df) ==
    {DefaultSelection(df)}
    \cup {[DefaultSelection(df) EXCEPT !.countries = <<c>>] : c \in all_countries(df)}
    \cup {[DefaultSelection(df) EXCEPT !.clades = <<c>>] : c \in all_clades(df)}
    \cup {[DefaultSelection(df) EXCEPT !.notes = <<n>>] : n \in all_notes(df)}
    \cup (IF HasDates(df)
          THEN {[DefaultSelection(df) EXCEPT !.date_range = <<d, d>>] :
                    d \in ColumnValues(df, "report_date") \ {NaT}}
          ELSE {})

Init ==
    /\ pc = "loaded"
    /\ table \in CaseTables
    /\ sel = NoSelection
    /\ filtered = NoTable
    /\ r = <<>>
    /\ priority_score = NaN
    /\ comps = NoComps
    /\ TabsIdle
    /\ AuxIdle

Next ==
    \/ Sidebar(SingleSelections(table))
    \/ FilterData
    \/ FindingsTab
    \/ GeographyTab
    \/ VaccinationTab
    \/ WorkforceTab
    \/ DeepDivesTab
    \/ InsightsTab
    \/ RecommendationsTab
    \/ DataPreview

Spec == Init /\ [][Next]_vars

-----------------------------------------------------------------------------
\* the sub-score of one input when an unknown (NaN) input counts as 0
KnownOnly(x, sub) == IF IsNaN(x) THEN Zero ELSE sub

\* the clamped sum of the sub-scores of the known inputs of an aggregate row
KnownSum(row) ==
    ClampScore(
        Add(ScoreCases(row),
        Add(KnownOnly(row.cfr_percent, ScoreCfr(row)),
        Add(KnownOnly(row.deployed_per_case, GapPerCase(row.deployed_per_case)),
        Add(KnownOnly(row.surveillance_per_case, GapPerCase(row.surveillance_per_case)),
        Add(KnownOnly(row.allocation_per_1000, EquityAllocation(row.allocation_per_1000)),
            KnownOnly(Get(row, "growth4w", Zero),
                      TrendGrowth(Get(row, "growth4w", Zero)))))))))

\* C2: a ratio of a country aggregate that is unknown contributes exactly 0
\* to the priority score: the score of every row of country_latest is the
\* clamped sum of the sub-scores of its known inputs.
UnknownContributesZero ==
    \A k \in 1..Len(country_latest) :
        country_latest[k].priority_score = KnownSum(country_latest[k])

\* the four ratios over total_cases
CaseRatios ==
    {"cfr_percent", "deployed_per_case", "surveillance_per_case", "allocation_per_1000"}

\* C3: in every country aggregate with total_cases = 0 the four ratios over
\* total_cases are unknown (NaN): not 0 and not plus or minus infinity.
ZeroCasesUnknown ==
    /\ \A k \in 1..Len(country_latest) :
          country_latest[k].total_cases = Zero
            => \A q \in CaseRatios : IsNaN(country_latest[k][q])
    /\ \A k \in 1..Len(summary) :
          summary[k].total_cases = Zero
            => \A q \in CaseRatios : IsNaN(summary[k][q])

\* the ratios an aggregated column feeds
FedBy(col) ==
    CASE col = "deaths" -> {"cfr_percent"}
      [] col = "deployed_chws" -> {"deployed_per_case"}
      [] col \in {"active_surveillance_sites", "testing_laboratries"} ->
            {"surveillance_per_case"}
      [] col = "vaccine_dose_allocated" -> {"uptake_rate_pct", "allocation_per_1000"}
      [] col = "vaccinations_administered" -> {"uptake_rate_pct"}
      [] OTHER -> {}

\* C6: the proxy aggregate standing in for an absent column feeds no
\* displayed ratio: for every column absent from the filtered table, the
\* ratios it feeds are unknown (NaN) in every row of country_latest and of
\* the recommendations summary.
ProxyNeverPresented ==
    \A col \in NumericFields \ filtered.columns : \A q \in FedBy(col) :
        /\ \A k \in 1..Len(country_latest) : IsNaN(country_latest[k][q])
        /\ \A k \in 1..Len(summary) : IsNaN(summary[k][q])

\* C7: no pass of main ends in an exception about a missing optional
\* column: every KeyError names columns the table has.
MissingColumnsNeverRaise ==
    ~(/\ pc = "error"
      /\ raised.exc = "KeyError"
      /\ raised.what # {}
      /\ raised.what \subseteq OptionalColumns \ filtered.columns)

-----------------------------------------------------------------------------
(* SpecCopy: filter_data called repeatedly on one base table, the caller
   changing the tables it got back.  A DataFrame is an object of the heap;
   two names for one object see each other's changes. *)

MaxCalls == 2

\* an object that is the source itself whenever nothing was filtered out
Copy_alias(h, df) ==
    IF \E i \in 1..Len(h) : h[i] = df
    THEN [heap |-> h, ref |-> CHOOSE i \in 1..Len(h) : h[i] = df]
    ELSE [heap |-> Append(h, df), ref |-> Len(h) + 1]

\* df[mask].copy(): a new object holding the selected rows
Copy(h, df) == [heap |-> Append(h, df), ref |-> Len(h) + 1]

\* the caller overwrites the country column of a table and adds a column
Edit(df) ==
    [columns |-> df.columns \cup {"flag"},
     rows |-> [i \in 1..Len(df.rows) |->
                 [c \in DOMAIN df.rows[i] \cup {"flag"} |->
                     IF c = "flag" THEN "set"
                     ELSE IF c = "country" THEN "edited"
                     ELSE df.rows[i][c]]]]

\* the caller drops every row of a table
DropRows(df) == [columns |-> df.columns, rows |-> <<>>]

\* base tables with every filter column
CopyTables ==
    {MkTable(FilterColumns, rows) :
        rows \in UNION {[1..n -> SourceRows] : n \in 1..MaxRows}}

\* the untouched sidebar, or one country chosen
CopySelections(df) ==
    {NoSelection} \cup {[NoSelection EXCEPT !.countries = <<c>>] : c \in all_countries(df)}

InitCopy ==
    /\ pc = "base"
    /\ table \in CopyTables
    /\ heap = <<table>>
    /\ returned = <<>>
    /\ context_note = ""
    /\ sheet = NoFrame
    /\ frame = NoFrame
    /\ session = NewSession
    /\ slider = <<>>
    /\ anomaly = NoAnomaly
    /\ sim = <<>>
    /\ sel = NoSelection
    /\ filtered = NoTable
    /\ r = <<>>
    /\ priority_score = NaN
    /\ comps = NoComps
    /\ TabsIdle

\* filtered = filter_data(df, ...) on the base object
CallFilterData ==
    /\ pc = "base"
    /\ Len(returned) < MaxCalls
    /\ \E s \in CopySelections(heap[1]) :
          LET out == Copy(heap, filter_data(heap[1], s.date_range, s.countries,
                                            s.clades, s.notes))
          IN  /\ heap' = out.heap
              /\ returned' = Append(returned, out.ref)
              /\ sel' = s
              /\ filtered' = out.heap[out.ref]
    /\ UNCHANGED <<pc, table, r, priority_score, comps, tabVars, context_note, sheet, frame, session, slider,
                   anomaly, sim>>

\* the caller changes a table it got back
ChangeReturned ==
    /\ pc = "base"
    /\ \E k \in 1..Len(returned) : \E new \in {Edit(heap[returned[k]]), DropRows(heap[returned[k]])} :
          /\ new # heap[returned[k]]
          /\ "flag" \notin heap[returned[k]].columns \/ new.rows = <<>>
          /\ heap' = [heap EXCEPT ![returned[k]] = new]
    /\ UNCHANGED <<pc, table, returned, sel, filtered, r, priority_score, comps, tabVars, context_note, sheet, frame, session, slider,
                   anomaly, sim>>

NextCopy == CallFilterData \/ ChangeReturned

SpecCopy == InitCopy /\ [][NextCopy]_vars

-----------------------------------------------------------------------------
\* C11: filter_data leaves its input unchanged and returns a separate copy:
\* whatever calls were made and whatever was done to the returned tables,
\* the base object still holds the rows, columns and cells it was loaded
\* with, and every returned table is an object of its own.
BaseUnchanged ==
    pc = "base" =>
        /\ heap[1] = table
        /\ \A k \in 1..Len(returned) :
              /\ returned[k] # 1
              /\ \A j \in 1..Len(returned) : j # k => returned[j] # returned[k]

\* two calls were made, the first with nothing filtered out, and the table
\* it returned was edited afterwards
BaseUnchangedWitness ==
    /\ pc = "base"
    /\ Len(returned) = 2
    /\ "flag" \in heap[returned[1]].columns
    /\ Len(heap[returned[1]].rows) = Len(table.rows)
    /\ heap[returned[2]].rows = <<>>
    /\ Len(table.rows) = MaxRows

-----------------------------------------------------------------------------
(* Filter note: data.py, make_filter_note.  Strings are built as the code
   builds them; the arrow and the ellipsis are written in ASCII ("->",
   "..."). *)

Digits == <<"0", "1", "2", "3", "4", "5", "6", "7", "8", "9">>

\* str(dt.date()) for the days of the model, which lie in one month
isoformat(d) == "2024-01-" \o Digits[(d \div 10) + 1] \o Digits[(d % 10) + 1]

\* sep.join(items)
RECURSIVE join(_, _)
join(sep, items) ==
    IF items = <<>> THEN ""
    ELSE IF Len(items) = 1 THEN items[1]
    ELSE items[1] \o sep \o join(sep, Tail(items))

\* items[:n]
Slice(items, n) == SubSeq(items, 1, IF Len(items) < n THEN Len(items) ELSE n)

\* the ellipsis already at 5 values
Ellipsis_from5(items) == IF Len(items) >= 5 THEN "..." ELSE ""

\* '...' if len(items) > 5 else ''
Ellipsis(items) == IF Len(items) > 5 THEN "..." ELSE ""

make_filter_note(date_range, countries, clades, notes) ==
    LET parts ==
               (IF Truthy(date_range)
                THEN <<"Date: " \o isoformat(date_range[1]) \o " -> "
                        \o isoformat(date_range[2])>>
                ELSE <<>>)
            \o (IF Truthy(countries)
                THEN <<"Countries: " \o join(", ", Slice(countries, 5))
                        \o Ellipsis(countries)>>
                ELSE <<>>)
            \o (IF Truthy(clades)
                THEN <<"Clades: " \o join(", ", Slice(clades, 5)) \o Ellipsis(clades)>>
                ELSE <<>>)
            \o (IF Truthy(notes)
                THEN <<"Surveillance notes filter applied">>
                ELSE <<>>)
    IN  IF parts = <<>>
        THEN "Showing all data (no filters applied)."
        ELSE "Filters -> " \o join(" | ", parts)

-----------------------------------------------------------------------------
(* SpecNote: make_filter_note applied to selections drawn from bounded
   lists *)

MaxList == 6

NoteCountries ==
    <<"Angola", "Benin", "Chad", "Ghana", "Kenya", "Mali", "Togo", "Uganda">>

NoteClades == <<"I", "Ia", "Ib", "II", "IIa", "IIb", "III", "Unknown">>

Reverse(s) == [i \in 1..Len(s) |-> s[Len(s) + 1 - i]]

\* the first n values of the pool, in the pool's order or reversed
NoteLists(pool) ==
    {Slice(pool, n) : n \in 0..MaxList} \cup {Reverse(Slice(pool, n)) : n \in 0..MaxList}

NoteSelections ==
    [date_range : {<<>>} \cup {d \in (1..MaxDay) \X (1..MaxDay) : d[1] <= d[2]},
     countries : NoteLists(NoteCountries),
     clades : NoteLists(NoteClades),
     notes : {<<>>, <<"border screening">>, <<"border screening", "contact tracing">>}]

InitNote ==
    /\ pc = "sidebar"
    /\ sel \in NoteSelections
    /\ table = NoTable
    /\ filtered = NoTable
    /\ r = <<>>
    /\ priority_score = NaN
    /\ comps = NoComps
    /\ TabsIdle
    /\ AuxIdle

\* context_note = make_filter_note(date_range, countries, clades, notes)
MakeFilterNote ==
    /\ pc = "sidebar"
    /\ context_note' = make_filter_note(sel.date_range, sel.countries, sel.clades, sel.notes)
    /\ pc' = "noted"
    /\ UNCHANGED <<table, sel, filtered, r, priority_score, comps, tabVars, heap, returned, sheet, frame,
                   session, slider, anomaly, sim>>

NextNote == MakeFilterNote

SpecNote == InitNote /\ [][NextNote]_vars

-----------------------------------------------------------------------------
\* what the note says of a list: its first 5 values at most, and an
\* ellipsis exactly when it has more than 5
Listed(label, items) ==
    LET n == IF Len(items) > 5 THEN 5 ELSE Len(items)
    IN  label \o join(", ", [i \in 1..n |-> items[i]])
              \o (IF Len(items) > 5 THEN "..." ELSE "")

\* the summaries of the active dimensions of a selection, in order
ActiveParts(s) ==
       (IF s.date_range # <<>>
        THEN <<"Date: " \o isoformat(s.date_range[1]) \o " -> " \o isoformat(s.date_range[2])>>
        ELSE <<>>)
    \o (IF s.countries # <<>> THEN <<Listed("Countries: ", s.countries)>> ELSE <<>>)
    \o (IF s.clades # <<>> THEN <<Listed("Clades: ", s.clades)>> ELSE <<>>)
    \o (IF s.notes # <<>> THEN <<"Surveillance notes filter applied">> ELSE <<>>)

-----------------------------------------------------------------------------
(* Loading: utils/data.py, _standardize_columns, _coerce_types, load_data.
   A cell of a sheet is a number, a day number, a string, or text where a
   number or a date was expected. *)

\* a cell holding text that is no number
Text == [k |-> "str", n |-> 0, d |-> 1]

\* a cell holding text that is no date
BadDate == 0

\* the alias lists, canonical name first, in the order of the dict
EXPECTED_COLUMNS ==
    <<[canonical |-> "country", candidates |-> <<"country", "Country">>],
      [canonical |-> "report_date",
       candidates |-> <<"report_date", "date", "Date", "reportDate">>],
      [canonical |-> "confirmed_cases",
       candidates |-> <<"confirmed_cases", "Confirmed", "confirmed", "cases">>],
      [canonical |-> "deaths", candidates |-> <<"deaths", "Deaths", "fatalities">>],
      [canonical |-> "vaccinations_administered",
       candidates |-> <<"vaccinations_administered", "vax_administered", "administered">>],
      [canonical |-> "active_surveillance_sites",
       candidates |-> <<"active_surveillance_sites", "active_sites", "surveillance_sites">>],
      [canonical |-> "suspected_cases", candidates |-> <<"suspected_cases", "suspected">>],
      [canonical |-> "case_fatality_rate",
       candidates |-> <<"case_fatality_rate", "cfr", "cfr_percent">>],
      [canonical |-> "clade", candidates |-> <<"clade", "strain">>],
      [canonical |-> "weekly_new_cases",
       candidates |-> <<"weekly_new_cases", "weekly_cases">>],
      [canonical |-> "vaccine_dose_allocated",
       candidates |-> <<"vaccine_dose_allocated", "allocated">>],
      [canonical |-> "vaccine_dose_deployed",
       candidates |-> <<"vaccine_dose_deployed", "deployed">>],
      [canonical |-> "vaccine_coverage",
       candidates |-> <<"vaccine_coverage", "coverage_percent", "coverage">>],
      [canonical |-> "testing_laboratries",
       candidates |-> <<"testing_laboratries", "testing_labs", "laboratories", "labs">>],
      [canonical |-> "trained_chws", candidates |-> <<"trained_chws", "trained_chw">>],
      [canonical |-> "deployed_chws", candidates |-> <<"deployed_chws", "deployed_chw">>],
      [canonical |-> "surveillance_notes",
       candidates |-> <<"surveillance_notes", "notes", "surveillance_note">>]>>

Canonicals == {EXPECTED_COLUMNS[k].canonical : k \in 1..Len(EXPECTED_COLUMNS)}

\* a comparison of the names as they are written
lower_exact(c) == c

\* str.lower(), for the names that occur
lower(c) ==
    CASE c = "Country" -> "country"
      [] c = "Date" -> "date"
      [] c = "reportDate" -> "reportdate"
      [] c = "Confirmed" -> "confirmed"
      [] c = "Deaths" -> "deaths"
      [] c = "DEATHS" -> "deaths"
      [] c = "CFR" -> "cfr"
      [] c = "Cases" -> "cases"
      [] OTHER -> c

\* {c.lower(): c for c in df.columns}: a later column replaces an earlier one
lower_cols(names) ==
    [l \in {lower(names[i]) : i \in 1..Len(names)} |->
        LET last == CHOOSE i \in 1..Len(names) :
                        /\ lower(names[i]) = l
                        /\ \A j \in 1..Len(names) : lower(names[j]) = l => j <= i
        IN  names[last]]

\* mapping, after the first k entries of EXPECTED_COLUMNS
RECURSIVE MappingUpTo(_, _)
MappingUpTo(k, lc) ==
    IF k = 0 THEN <<>>
    ELSE LET prev == MappingUpTo(k - 1, lc)
             e == EXPECTED_COLUMNS[k]
             hits == {j \in 1..Len(e.candidates) : lower(e.candidates[j]) \in DOMAIN lc}
         IN  IF hits = {} THEN prev
             ELSE LET first == CHOOSE j \in hits : \A h \in hits : j <= h
                      key == lc[lower(e.candidates[first])]
                  IN  [x \in DOMAIN prev \cup {key} |->
                          IF x = key THEN e.canonical ELSE prev[x]]

\* df.rename(columns=mapping)
_standardize_columns(df) ==
    LET mapping == MappingUpTo(Len(EXPECTED_COLUMNS), lower_cols(df.names))
    IN  [df EXCEPT !.names =
            [i \in 1..Len(df.names) |->
                IF df.names[i] \in DOMAIN mapping THEN mapping[df.names[i]]
                ELSE df.names[i]]]

\* the positions of the columns labelled col
Positions(df, col) == {i \in 1..Len(df.names) : df.names[i] = col}
HasColumn(df, col) == Positions(df, col) # {}
PositionOf(df, col) == CHOOSE i \in Positions(df, col) : TRUE

\* df[col] is a DataFrame, not a Series
Duplicated(df, col) == Cardinality(Positions(df, col)) > 1

numeric_fields ==
    <<"confirmed_cases", "deaths", "vaccinations_administered",
      "active_surveillance_sites", "suspected_cases", "case_fatality_rate",
      "weekly_new_cases", "vaccine_dose_allocated", "vaccine_dose_deployed",
      "vaccine_coverage", "testing_laboratries", "trained_chws", "deployed_chws">>

\* pd.to_numeric(cell, errors="coerce")
to_numeric(cell) == IF cell.k = "str" THEN NaN ELSE cell

\* pd.to_datetime(cell, errors="coerce")
to_datetime(cell) == IF cell = BadDate THEN NaT ELSE cell

\* a conversion that accepts whatever a label selects
CoerceError_none(df) == NoError

\* the exception _coerce_types raises, if any: pd.to_datetime and
\* pd.to_numeric reject the DataFrame that a duplicated label selects
CoerceError(df) ==
    IF Duplicated(df, "report_date")
    THEN Raise("ValueError", {"report_date"})
    ELSE LET dup == {k \in 1..Len(numeric_fields) : Duplicated(df, numeric_fields[k])}
         IN  IF dup = {} THEN NoError
             ELSE Raise("TypeError",
                        {numeric_fields[CHOOSE k \in dup : \A h \in dup : k <= h]})

\* a conversion that drops the rows holding a malformed cell
_coerce_types_dropping(df) ==
    LET bad(row) ==
            \E j \in 1..Len(df.names) :
                \/ df.names[j] = "report_date" /\ row[j] = BadDate
                \/ df.names[j] \in Range(numeric_fields) /\ row[j] = Text
    IN  [df EXCEPT !.rows = SelectSeq(df.rows, LAMBDA row : ~bad(row))]

_coerce_types(df) ==
    [df EXCEPT !.rows =
        [i \in 1..Len(df.rows) |->
            [j \in 1..Len(df.names) |->
                IF df.names[j] = "report_date" THEN to_datetime(df.rows[i][j])
                ELSE IF df.names[j] \in Range(numeric_fields)
                     THEN to_numeric(df.rows[i][j])
                     ELSE df.rows[i][j]]]]

\* df[col] = values, for a label that is absent or held by one column
SetColumn(df, col, values) ==
    IF HasColumn(df, col)
    THEN [df EXCEPT !.rows =
            [i \in 1..Len(df.rows) |->
                [df.rows[i] EXCEPT ![PositionOf(df, col)] = values[i]]]]
    ELSE [names |-> Append(df.names, col),
          rows |-> [i \in 1..Len(df.rows) |-> Append(df.rows[i], values[i])]]

\* df[col], one cell per row
Column(df, col) == [i \in 1..Len(df.rows) |-> df.rows[i][PositionOf(df, col)]]

\* not df["report_date"].isna().all()
AnyDate(df) == \E i \in 1..Len(df.rows) : df.rows[i][PositionOf(df, "report_date")] # NaT

\* all inf kept
DeriveCfr_keepinf(deaths, cases) == Mul(Div(deaths, cases), F(100))

\* (deaths / confirmed_cases).replace([np.inf, -np.inf], np.nan) * 100
DeriveCfr(deaths, cases) == Mul(ReplaceInf(Div(deaths, cases)), F(100))

\* str(period), for the weeks ending on Sunday and the one month of the model
year_week(d) ==
    IF d = NaT THEN "NaT" ELSE isoformat(WeekStart(d)) \o "/" \o isoformat(WeekStart(d) + 6)
year_month(d) == IF d = NaT THEN "NaT" ELSE "2024-01"

\* load_data after _coerce_types: the date columns and the derived CFR
AddDerived(df) ==
    LET dated ==
            IF HasColumn(df, "report_date") /\ AnyDate(df)
            THEN LET dates == Column(df, "report_date")
                     d1 == SetColumn(df, "date", dates)
                     d2 == SetColumn(d1, "year_week",
                               [i \in 1..Len(dates) |-> year_week(dates[i])])
                 IN  SetColumn(d2, "year_month",
                               [i \in 1..Len(dates) |-> year_month(dates[i])])
            ELSE df
    IN  IF ~HasColumn(dated, "case_fatality_rate")
           /\ HasColumn(dated, "deaths") /\ HasColumn(dated, "confirmed_cases")
        THEN SetColumn(dated, "case_fatality_rate",
                 [i \in 1..Len(dated.rows) |->
                     DeriveCfr(Column(dated, "deaths")[i],
                               Column(dated, "confirmed_cases")[i])])
        ELSE dated

-----------------------------------------------------------------------------
(* SpecLoad: load_data on sheets of a few columns, step by step *)

MaxCols == 3

\* the column names a sheet may use
RawNames ==
    <<"country", "deaths", "Deaths", "DEATHS", "fatalities", "cases", "Confirmed",
      "CFR", "cfr_percent", "date", "region", "year_week">>

\* the cells of the three source rows under a column
SourceCells(name) ==
    CASE name = "country" -> <<"Kenya", "Uganda", NA>>
      [] name = "region" -> <<"East", "East", "West">>
      [] name = "year_week" -> <<"W01", "W01", "W02">>
      [] name = "date" -> <<1, 2, BadDate>>
      [] name = "deaths" -> <<Zero, F(2), F(3)>>
      [] name = "Deaths" -> <<F(1), F(5), Text>>
      [] name = "DEATHS" -> <<F(4), F(6), F(7)>>
      [] name = "fatalities" -> <<F(8), F(9), F(10)>>
      [] name = "cases" -> <<Zero, F(50), Text>>
      [] name = "Confirmed" -> <<F(100), Zero, F(200)>>
      [] name = "CFR" -> <<F(11), Text, F(12)>>
      [] name = "cfr_percent" -> <<F(13), F(14), F(15)>>

\* the sequences of at most n source rows
RECURSIVE RowChoices(_)
RowChoices(n) ==
    IF n = 0 THEN {<<>>}
    ELSE LET shorter == RowChoices(n - 1)
         IN  shorter \cup {Append(s, x) : s \in {q \in shorter : Len(q) = n - 1},
                                          x \in 1..3}

\* the names of a set of positions of RawNames, in that order
RECURSIVE Ordered(_)
Ordered(S) ==
    IF S = {} THEN <<>>
    ELSE LET m == CHOOSE x \in S : \A y \in S : x <= y
         IN  <<RawNames[m]>> \o Ordered(S \ {m})

\* the sets of at most n positions of RawNames
RECURSIVE Picks(_)
Picks(n) ==
    IF n = 0 THEN {{}}
    ELSE LET fewer == Picks(n - 1)
         IN  fewer \cup {S \cup {x} : S \in {q \in fewer : Cardinality(q) = n - 1},
                                      x \in 1..Len(RawNames)}

MkSheet(names, source) ==
    [names |-> names,
     rows |-> [i \in 1..Len(source) |->
                 [j \in 1..Len(names) |-> SourceCells(names[j])[source[i]]]]]

Sheets ==
    {MkSheet(names, source) :
        names \in {Ordered(S) : S \in Picks(MaxCols) \ {{}}}
                 \cup {Reverse(Ordered(S)) : S \in Picks(MaxCols) \ {{}}},
        source \in RowChoices(MaxRows) \ {<<>>}}

InitLoad ==
    /\ pc = "read"
    /\ sheet \in Sheets
    /\ frame = sheet
    /\ session = NewSession
    /\ slider = <<>>
    /\ anomaly = NoAnomaly
    /\ sim = <<>>
    /\ heap = <<>>
    /\ returned = <<>>
    /\ context_note = ""
    /\ table = NoTable
    /\ sel = NoSelection
    /\ filtered = NoTable
    /\ r = <<>>
    /\ priority_score = NaN
    /\ comps = NoComps
    /\ TabsIdle

loadKeeps ==
    <<sheet, session, slider, anomaly, sim, heap, returned, context_note, table, sel, filtered, r, priority_score,
      comps, country_latest, sel_row, rec_view, alerts, summary, rendered>>

\* df = _standardize_columns(df)
StandardizeColumns ==
    /\ pc = "read"
    /\ frame' = _standardize_columns(frame)
    /\ pc' = "standardized"
    /\ UNCHANGED <<loadKeeps, raised>>

\* df = _coerce_types(df)
CoerceTypes ==
    /\ pc = "standardized"
    /\ IF CoerceError(frame) # NoError
       THEN /\ raised' = CoerceError(frame)
            /\ pc' = "error"
            /\ UNCHANGED frame
       ELSE /\ frame' = _coerce_types(frame)
            /\ pc' = "coerced"
            /\ UNCHANGED raised
    /\ UNCHANGED loadKeeps

\* the rest of load_data, to its return
ReturnLoaded ==
    /\ pc = "coerced"
    /\ frame' = AddDerived(frame)
    /\ pc' = "loaded"
    /\ UNCHANGED <<loadKeeps, raised>>

NextLoad == StandardizeColumns \/ CoerceTypes \/ ReturnLoaded

SpecLoad == InitLoad /\ [][NextLoad]_vars

-----------------------------------------------------------------------------
\* the first alias of an entry that some column of the sheet matches,
\* compared case-insensitively (0: none)
FirstAliasPresent(e, names) ==
    LET hits == {j \in 1..Len(e.candidates) :
                    \E i \in 1..Len(names) : lower(names[i]) = lower(e.candidates[j])}
    IN  IF hits = {} THEN 0 ELSE CHOOSE j \in hits : \A h \in hits : j <= h

\* C13: after _standardize_columns no two columns share a canonical name,
\* and the column renamed to a canonical field is the one matching the
\* first alias of that field that is present, compared case-insensitively.
CanonicalNamesUnique ==
    pc = "standardized" =>
        /\ \A i, j \in 1..Len(frame.names) :
              (frame.names[i] = frame.names[j] /\ frame.names[i] \in Canonicals) => i = j
        /\ \A k \in 1..Len(EXPECTED_COLUMNS) :
              LET e == EXPECTED_COLUMNS[k]
                  a == FirstAliasPresent(e, sheet.names)
              IN  /\ \A i \in 1..Len(frame.names) :
                        (frame.names[i] = e.canonical /\ sheet.names[i] # e.canonical)
                            => /\ a # 0
                               /\ lower(sheet.names[i]) = lower(e.candidates[a])
                  /\ a # 0 =>
                        \E i \in 1..Len(frame.names) :
                            /\ frame.names[i] = e.canonical
                            /\ lower(sheet.names[i]) = lower(e.candidates[a])

\* the names of the sheet that stand for the case fatality rate
CfrNames == {"case_fatality_rate", "cfr", "CFR", "cfr_percent"}

\* the position of the supplied CFR column of the sheet (0: none supplied)
SuppliedCfr ==
    LET at(name) == {i \in 1..Len(sheet.names) : sheet.names[i] = name}
    IN  IF at("case_fatality_rate") # {} THEN CHOOSE i \in at("case_fatality_rate") : TRUE
        ELSE IF at("cfr") \cup at("CFR") # {} THEN CHOOSE i \in at("cfr") \cup at("CFR") : TRUE
        ELSE IF at("cfr_percent") # {} THEN CHOOSE i \in at("cfr_percent") : TRUE
        ELSE 0

\* C14: after load_data, case_fatality_rate is the supplied CFR column
\* whenever the sheet has one under any alias; only otherwise, and when
\* deaths and confirmed_cases both exist, it is deaths/cases*100 per row,
\* and unknown (not infinite, not 0) where cases = 0.
CfrSuppliedOrDerived ==
    pc = "loaded" =>
        LET cfr == Positions(frame, "case_fatality_rate")
        IN  IF SuppliedCfr # 0
            THEN /\ cfr = {SuppliedCfr}
                 /\ \A i \in 1..Len(frame.rows) :
                       LET cell == sheet.rows[i][SuppliedCfr]
                       IN  frame.rows[i][SuppliedCfr] = IF cell = Text THEN NaN ELSE cell
            ELSE IF HasColumn(frame, "deaths") /\ HasColumn(frame, "confirmed_cases")
            THEN /\ Cardinality(cfr) = 1
                 /\ cfr \cap (1..Len(sheet.names)) = {}
                 /\ \A i \in 1..Len(frame.rows) :
                       LET deaths == Column(frame, "deaths")[i]
                           cases == Column(frame, "confirmed_cases")[i]
                           value == Column(frame, "case_fatality_rate")[i]
                       IN  /\ cases = Zero => IsNaN(value)
                           /\ (IsFin(cases) /\ Gt(cases, Zero) /\ IsFin(deaths))
                                 => value = Fin(100 * deaths.n * cases.d,
                                                deaths.d * cases.n)
                           /\ ~IsInf(value)
            ELSE cfr = {}

\* a derived CFR for a row with deaths but no cases, and a row with both
CfrSuppliedOrDerivedWitness ==
    /\ pc = "loaded"
    /\ SuppliedCfr = 0
    /\ HasColumn(frame, "case_fatality_rate")
    /\ \E i \in 1..Len(frame.rows) :
          /\ Column(frame, "confirmed_cases")[i] = Zero
          /\ Gt(Column(frame, "deaths")[i], Zero)
          /\ IsNaN(Column(frame, "case_fatality_rate")[i])
    /\ \E i \in 1..Len(frame.rows) :
          /\ Column(frame, "confirmed_cases")[i] = F(50)
          /\ Column(frame, "deaths")[i] = F(5)
          /\ Column(frame, "case_fatality_rate")[i] = F(10)

-----------------------------------------------------------------------------
(* SpecRules: the recommendation rules of both views applied to one
   aggregate row drawn from bounded sets *)

RuleCfrVals == {NaN, F(3), F(4)}
RuleDepVals == {NaN, Fin(3, 10), Fin(1, 2)}
RuleSurvVals == {NaN, Fin(1, 100), Fin(1, 50), Fin(3, 100)}
RuleAllocVals == {NaN, F(1000), F(2000), F(3000)}
RuleUptakeVals == {NaN, F(60), F(70)}
RuleCoverageVals == {NaN, F(40)}

\* aggregate rows, without and with the latest_coverage of the summary
RuleRows ==
    [country : {"Kenya"}, priority_score : {Zero},
     cfr_percent : RuleCfrVals, deployed_per_case : RuleDepVals,
     surveillance_per_case : RuleSurvVals, allocation_per_1000 : RuleAllocVals,
     uptake_rate_pct : RuleUptakeVals]
    \cup
    [country : {"Kenya"}, priority_score : {Zero},
     cfr_percent : RuleCfrVals, deployed_per_case : RuleDepVals,
     surveillance_per_case : RuleSurvVals, allocation_per_1000 : RuleAllocVals,
     uptake_rate_pct : RuleUptakeVals, latest_coverage : RuleCoverageVals]

InitRules ==
    /\ pc = "row"
    /\ r \in RuleRows
    /\ priority_score = NaN
    /\ comps = NoComps
    /\ table = NoTable
    /\ sel = NoSelection
    /\ filtered = NoTable
    /\ TabsIdle
    /\ AuxIdle

\* rec_view: rec_for_row applied to the row
InsightsRecs ==
    /\ pc = "row"
    /\ rec_view' = RecView(<<r>>)
    /\ pc' = "insights"
    /\ UNCHANGED <<passVars, comps, country_latest, sel_row, alerts, summary,
                   rendered, raised>>

\* recs = _recommendations_for_row(row), for the row of the summary shown
RecommendationsRecs ==
    /\ pc = "insights"
    /\ summary' = <<r @@ ("recommendations" :> recommendations_for_row(r))>>
    /\ pc' = "recommended"
    /\ UNCHANGED <<passVars, insightsVars, rendered, raised>>

NextRules == InsightsRecs \/ RecommendationsRecs

SpecRules == InitRules /\ [][NextRules]_vars

-----------------------------------------------------------------------------
\* the five threshold rules that trigger for a row, by their number in the
\* fixed order
Triggered(row) ==
    {k \in 1..5 :
        CASE k = 1 -> IsFin(row.cfr_percent) /\ Gt(row.cfr_percent, F(3))
          [] k = 2 -> IsFin(row.deployed_per_case) /\ Lt(row.deployed_per_case, Fin(1, 2))
          [] k = 3 -> IsFin(row.surveillance_per_case)
                      /\ Lt(row.surveillance_per_case, Fin(2, 100))
          [] k = 4 -> IsFin(row.allocation_per_1000) /\ Lt(row.allocation_per_1000, F(2000))
          [] k = 5 -> IsFin(row.uptake_rate_pct) /\ Lt(row.uptake_rate_pct, F(70))}

\* the messages of the five rules, per view
InsightsMessages ==
    <<"Investigate drivers of high CFR; ensure timely care, oxygen, and antivirals.",
      "Surge deploy CHWs; target <500 cases per deployed CHW.",
      "Expand active sites and labs; aim for higher sites/labs per case.",
      "Advocate for additional vaccine allocation aligned to burden.",
      "Address last-mile bottlenecks; microplanning and outreach to raise uptake.">>

RecommendationsMessages ==
    <<"Clinical: Investigate high CFR; ensure rapid referral, oxygen, antivirals, IPC training.",
      "Workforce: Surge deploy CHWs; target <500 cases per deployed CHW; mobile teams for hotspots.",
      "Surveillance: Expand active sites/labs; improve sample transport and reporting cadence.",
      "Allocation: Advocate for doses aligned to burden; prioritize high-risk geographies.",
      "Uptake: Address last-mile constraints; microplanning, outreach, community engagement.">>

DataMessage == "Data: Improve coverage reporting frequency and completeness."
MaintainInsights == "Maintain current response; continue monitoring trends and capacity."
MaintainRecommendations ==
    "Maintain current strategy; continue monitoring and targeted micro-adjustments."

\* the messages of the triggered rules, in the fixed order
RECURSIVE TriggeredMessages(_, _, _)
TriggeredMessages(messages, S, k) ==
    IF k > Len(messages) THEN <<>>
    ELSE (IF k \in S THEN <<messages[k]>> ELSE <<>>) \o TriggeredMessages(messages, S, k + 1)

\* the coverage the summary reports for the row is unknown
CoverageUnknown(row) == "latest_coverage" \notin DOMAIN row \/ IsNaN(row.latest_coverage)

\* the row of the example: cfr 4, 0.3 CHWs and 0.03 sites per case, 3000
\* doses per 1000 cases, uptake 60
RuleExample(row) ==
    /\ row.cfr_percent = F(4)
    /\ row.deployed_per_case = Fin(3, 10)
    /\ row.surveillance_per_case = Fin(3, 100)
    /\ row.allocation_per_1000 = F(3000)
    /\ row.uptake_rate_pct = F(60)

ExampleInsights == <<InsightsMessages[1], InsightsMessages[2], InsightsMessages[5]>>
ExampleRecommendations ==
    <<RecommendationsMessages[1], RecommendationsMessages[2], RecommendationsMessages[5]>>

InsightsOut == rec_view[1].recommendations
RecommendationsOut == summary[1].recommendations

\* C15 as stated: both views append one message per triggered rule of the
\* five, in the fixed order, and nothing else; the example row yields the
\* clinical-care, workforce-surge and last-mile uptake messages only.
FiveRulesInOrder ==
    pc = "recommended" =>
        /\ Triggered(r) # {} =>
              /\ InsightsOut = TriggeredMessages(InsightsMessages, Triggered(r), 1)
              /\ RecommendationsOut
                    = TriggeredMessages(RecommendationsMessages, Triggered(r), 1)
        /\ RuleExample(r) =>
              /\ InsightsOut = ExampleInsights
              /\ RecommendationsOut = ExampleRecommendations

\* C15, amended: both views append one message per triggered rule of the
\* five, in the fixed order; the Recommendations view appends after them the
\* data-quality message when latest_coverage is unknown.  The example row
\* yields the clinical-care, workforce-surge and last-mile uptake messages
\* in that order, followed in the Recommendations view by the data-quality
\* message when its coverage is unknown.
RulesInOrder ==
    pc = "recommended" =>
        LET data == IF CoverageUnknown(r) THEN <<DataMessage>> ELSE <<>>
        IN  /\ Triggered(r) # {} =>
                  /\ InsightsOut = TriggeredMessages(InsightsMessages, Triggered(r), 1)
                  /\ RecommendationsOut
                        = TriggeredMessages(RecommendationsMessages, Triggered(r), 1) \o data
            /\ RuleExample(r) =>
                  /\ InsightsOut = ExampleInsights
                  /\ RecommendationsOut = ExampleRecommendations \o data

\* the example row with a known coverage, through both views
RulesInOrderWitness ==
    /\ pc = "recommended"
    /\ RuleExample(r)
    /\ ~CoverageUnknown(r)
    /\ Len(InsightsOut) = 3
    /\ Len(RecommendationsOut) = 3

\* C16 as stated: in both views the output is the single 'maintain' message
\* exactly when none of the five threshold rules triggers.
MaintainIffNoneOfFive ==
    pc = "recommended" =>
        /\ (InsightsOut = <<MaintainInsights>>) <=> (Triggered(r) = {})
        /\ (RecommendationsOut = <<MaintainRecommendations>>) <=> (Triggered(r) = {})

\* C16, amended: the Insights view outputs the single 'maintain' message
\* exactly when none of the five threshold rules triggers; the
\* Recommendations view does so exactly when none of the five triggers and
\* latest_coverage is known.
MaintainIffNoRule ==
    pc = "recommended" =>
        /\ (InsightsOut = <<MaintainInsights>>) <=> (Triggered(r) = {})
        /\ (RecommendationsOut = <<MaintainRecommendations>>)
              <=> (Triggered(r) = {} /\ ~CoverageUnknown(r))

\* a row at the thresholds, where no rule triggers, with a known coverage
MaintainIffNoRuleWitness ==
    /\ pc = "recommended"
    /\ r.cfr_percent = F(3)
    /\ r.deployed_per_case = Fin(1, 2)
    /\ r.surveillance_per_case = Fin(1, 50)
    /\ r.allocation_per_1000 = F(2000)
    /\ r.uptake_rate_pct = F(70)
    /\ ~CoverageUnknown(r)
    /\ InsightsOut = <<MaintainInsights>>
    /\ RecommendationsOut = <<MaintainRecommendations>>

-----------------------------------------------------------------------------
\* the weeks in which the table has a dated record of the country
WeeksObserved(df, c) ==
    IF "report_date" \notin df.columns THEN {}
    ELSE {WeekStart(df.rows[i].report_date) :
            i \in {j \in 1..Len(df.rows) :
                     df.rows[j].country = c /\ df.rows[j].report_date # NaT}}

\* C17: for a country with fewer than 4 weekly observations growth4w is
\* unknown and contributes 0 to the priority score; it is never computed
\* from 1, 2 or 3 observations.
FewWeeksUnknown ==
    \A k \in 1..Len(country_latest) :
        Cardinality(WeeksObserved(filtered, country_latest[k].country)) < 4
            => /\ IsNaN(Get(country_latest[k], "growth4w", NaN))
               /\ score_components(country_latest[k]).trend_growth = Zero

-----------------------------------------------------------------------------
(* SpecGrowth: insights_tab on tables holding one weekly series of a
   country, supplied as weekly_new_cases or derived from confirmed_cases *)

MaxWeeks == 5

\* the counts a weekly record may carry
WeekCounts == {Zero, F(20), F(200)}

\* the record of Kenya for week w (its Monday) with one count
WeekRow(w, count) ==
    CaseRow("Kenya", 7 * (w - 1) + 1, "Ib", NA, count, Zero, F(100), F(50), F(10), F(1))

\* a second country, so that the table has more than one group
OtherRow == CaseRow("Uganda", 1, NA, NA, F(50), F(1), F(100), Zero, F(4), F(1))

\* the series of n weeks, one record per week
RECURSIVE WeekSeries(_)
WeekSeries(n) ==
    IF n = 0 THEN {<<>>}
    ELSE {Append(s, WeekRow(n, count)) : s \in WeekSeries(n - 1), count \in WeekCounts}

\* a series in the order of its weeks or latest first, after the other
\* country's record; with or without the weekly_new_cases column
GrowthTables ==
    {MkTable(columns, <<OtherRow>> \o rows) :
        columns \in {AllColumns, AllColumns \ {"weekly_new_cases"}},
        rows \in UNION {WeekSeries(n) \cup {Reverse(s) : s \in WeekSeries(n)} :
                            n \in 1..MaxWeeks}}

InitGrowth ==
    /\ pc = "insights"
    /\ table \in GrowthTables
    /\ sel = DefaultSelection(table)
    /\ filtered = table
    /\ r = <<>>
    /\ priority_score = NaN
    /\ comps = NoComps
    /\ TabsIdle
    /\ AuxIdle

NextGrowth == InsightsTab

SpecGrowth == InitGrowth /\ [][NextGrowth]_vars

-----------------------------------------------------------------------------
\* the weekly observations of a country, ordered by week: per week the sum
\* of the weekly_new_cases supplied, or the series derived from
\* confirmed_cases when the table has no such column
Observations(df, c) ==
    IF "weekly_new_cases" \in df.columns
    THEN LET weeks == SortedSeq(WeeksObserved(df, c))
         IN  [k \in 1..Len(weeks) |->
                 SumCells(SelectSeq(df.rows,
                             LAMBDA row : /\ row.country = c
                                          /\ row.report_date # NaT
                                          /\ WeekStart(row.report_date) = weeks[k]),
                          "weekly_new_cases")]
    ELSE WeeklyDerived(df, c)

\* (last - first) / max(first, 1) over the 4 most recent of the observations
GrowthOfLast4(obs) ==
    LET first == obs[Len(obs) - 3]
        last == obs[Len(obs)]
    IN  Div(Sub(last, first), IF Lt(first, One) THEN One ELSE first)

\* C18: for a country with at least 4 weekly observations growth4w is
\* (last - first) / max(first, 1) over its 4 most recent observations
\* ordered by week, for a supplied and for a derived weekly series.
GrowthOverLast4 ==
    \A k \in 1..Len(country_latest) :
        LET obs == Observations(filtered, country_latest[k].country)
        IN  Len(obs) >= 4 => country_latest[k].growth4w = GrowthOfLast4(obs)

\* five weeks supplied latest first, 20 cases in the second and 200 in the
\* last: growth4w is 9, not the 200 the first week would give
GrowthOverLast4Witness ==
    /\ pc = "recommendations"
    /\ "weekly_new_cases" \in filtered.columns
    /\ Len(filtered.rows) = 6
    /\ filtered.rows[2].report_date > filtered.rows[6].report_date
    /\ \E k \in 1..Len(country_latest) :
          /\ country_latest[k].country = "Kenya"
          /\ Observations(filtered, "Kenya") = <<Zero, F(20), Zero, Zero, F(200)>>
          /\ country_latest[k].growth4w = F(9)

\* a series derived from confirmed_cases over four weeks
GrowthDerivedReached ==
    /\ pc = "recommendations"
    /\ "weekly_new_cases" \notin filtered.columns
    /\ \E k \in 1..Len(country_latest) :
          /\ Len(Observations(filtered, country_latest[k].country)) >= 4
          /\ Gt(country_latest[k].growth4w, Zero)

-----------------------------------------------------------------------------
\* the summed counts of a country aggregate and the column each one sums
SummedCounts ==
    {<<"total_cases", "confirmed_cases">>, <<"total_deaths", "deaths">>,
     <<"allocated", "vaccine_dose_allocated">>, <<"deployed", "vaccine_dose_deployed">>,
     <<"administered", "vaccinations_administered">>, <<"trained", "trained_chws">>,
     <<"deployed_chws", "deployed_chws">>, <<"sites", "active_surveillance_sites">>,
     <<"labs", "testing_laboratries">>}

\* every value of the column among the records of the country is unknown
AllUnknown(df, c, col) ==
    /\ col \in df.columns
    /\ \A i \in 1..Len(df.rows) : df.rows[i].country = c => IsNaN(df.rows[i][col])

\* C19: a summed count of a country aggregate is unknown, not 0, when
\* every contributing value of its field is unknown for the country, and
\* the ratios built on it are then unknown.
AllUnknownSumsUnknown ==
    \A k \in 1..Len(country_latest) :
        \A f \in SummedCounts :
            AllUnknown(filtered, country_latest[k].country, f[2])
                => /\ IsNaN(country_latest[k][f[1]])
                   /\ \A q \in (IF f[2] = "confirmed_cases" THEN CaseRatios ELSE FedBy(f[2])) :
                         IsNaN(country_latest[k][q])

-----------------------------------------------------------------------------
(* SpecSession: the runs of one browser session up to the return of
   build_sidebar.  Every user action reruns the script; st.session_state
   outlives the runs. *)

\* df["report_date"].min() and .max(), NaT skipped
MinDate(df) ==
    LET days == ColumnValues(df, "report_date") \ {NaT}
    IN  CHOOSE d \in days : \A e \in days : d <= e
MaxDate(df) ==
    LET days == ColumnValues(df, "report_date") \ {NaT}
    IN  CHOOSE d \in days : \A e \in days : e <= d

\* st.session_state.get("_min_dt") or df["report_date"].min(), and the same
\* for the maximum
SliderBounds(df, ss) ==
    <<IF ss.min_dt # Unset THEN ss.min_dt ELSE MinDate(df),
      IF ss.max_dt # Unset THEN ss.max_dt ELSE MaxDate(df)>>

\* the keys 'Reset filters' deletes when it leaves the slider's alone
ResetKeys_lists_only ==
    {"countries_multiselect", "clades_multiselect", "notes_multiselect"}

\* the keys 'Reset filters' deletes from st.session_state
ResetKeys ==
    {"date_range_slider", "countries_multiselect", "clades_multiselect",
     "notes_multiselect"}

\* del st.session_state[k] for the keys given
Deleted(ss, keys) ==
    [k \in DOMAIN ss |-> IF k \in keys THEN <<>> ELSE ss[k]]

\* what a multiselect returns: the list kept under its key while it is the
\* same widget (same options), else its default, the empty list
Multiselect(ss, key, n, options) ==
    IF ss.options[n] = options THEN ss[key] ELSE <<>>

\* build_sidebar up to its return: the session state it leaves, the
\* selection it returns and the slider it shows.  The slider returns the
\* value kept under its key, else its default; the key of a widget that is
\* not shown is dropped.
RunSidebar(df, ss) ==
    LET bounds == SliderBounds(df, ss)
        value == IF ~HasDates(df) THEN <<>>
                 ELSE IF ss.date_range_slider # <<>> THEN ss.date_range_slider
                 ELSE bounds
        countries == Multiselect(ss, "countries_multiselect", 1, all_countries(df))
        clades == Multiselect(ss, "clades_multiselect", 2, all_clades(df))
        notes == Multiselect(ss, "notes_multiselect", 3, all_notes(df))
    IN  [session |-> [min_dt |-> IF HasDates(df) THEN bounds[1] ELSE ss.min_dt,
                      max_dt |-> IF HasDates(df) THEN bounds[2] ELSE ss.max_dt,
                      date_range_slider |-> value,
                      countries_multiselect |-> countries,
                      clades_multiselect |-> clades,
                      notes_multiselect |-> notes,
                      options |-> <<all_countries(df), all_clades(df), all_notes(df)>>],
         sel |-> [date_range |-> value, countries |-> countries,
                  clades |-> clades, notes |-> notes],
         slider |-> IF HasDates(df)
                    THEN [min_value |-> bounds[1], max_value |-> bounds[2],
                          value |-> bounds]
                    ELSE <<>>]

\* one run of main over df with the session state ss, up to the return of
\* build_sidebar
Rerun(df, ss) ==
    /\ table' = df
    /\ session' = RunSidebar(df, ss).session
    /\ sel' = RunSidebar(df, ss).sel
    /\ slider' = RunSidebar(df, ss).slider
    /\ UNCHANGED <<filtered, r, priority_score, comps, tabVars, heap, returned,
                   context_note, sheet, frame, anomaly, sim>>

InitSession ==
    /\ pc = "start"
    /\ table = NoTable
    /\ sel = NoSelection
    /\ filtered = NoTable
    /\ r = <<>>
    /\ priority_score = NaN
    /\ comps = NoComps
    /\ TabsIdle
    /\ AuxIdle

\* the datasets of a session: each record once, in the order of the dates
SessionTables ==
    {df \in CopyTables :
        \A i, j \in 1..Len(df.rows) :
            i < j => /\ df.rows[i].report_date <= df.rows[j].report_date
                     /\ <<df.rows[i].country, df.rows[i].report_date>>
                           # <<df.rows[j].country, df.rows[j].report_date>>}

\* the sidebar is on screen: after an ordinary run, or after the run that
\* 'Reset filters' started
Shown == {"sidebar", "reset"}

\* the first run of the session, on the default dataset
OpenApp ==
    /\ pc = "start"
    /\ pc' = "sidebar"
    /\ \E df \in SessionTables : Rerun(df, session)

\* the user uploads another dataset
UploadData ==
    /\ pc \in Shown
    /\ pc' = "sidebar"
    /\ \E df \in SessionTables \ {table} : Rerun(df, session)

\* the user moves the date slider within its bounds
MoveSlider ==
    /\ pc \in Shown
    /\ pc' = "sidebar"
    /\ slider # <<>>
    /\ \E a, b \in slider.min_value..slider.max_value :
          /\ a <= b
          /\ Rerun(table, [session EXCEPT !.date_range_slider = <<a, b>>])

\* the lists the user sets a multiselect to: nothing or one option
Picked(options) == {<<>>} \cup {<<o>> : o \in options}

\* the user changes the countries, the clades or the notes chosen
PickOptions ==
    /\ pc \in Shown
    /\ pc' = "sidebar"
    /\ \/ \E l \in Picked(all_countries(table)) :
             Rerun(table, [session EXCEPT !.countries_multiselect = l])
       \/ \E l \in Picked(all_clades(table)) :
             Rerun(table, [session EXCEPT !.clades_multiselect = l])
       \/ \E l \in Picked(all_notes(table)) :
             Rerun(table, [session EXCEPT !.notes_multiselect = l])

\* the user presses 'Reset filters': the widget keys are deleted and
\* st.experimental_rerun() runs the script again
ResetFilters ==
    /\ pc \in Shown
    /\ pc' = "reset"
    /\ Rerun(table, Deleted(session, ResetKeys))

NextSession == OpenApp \/ UploadData \/ MoveSlider \/ PickOptions \/ ResetFilters

SpecSession == InitSession /\ [][NextSession]_vars

-----------------------------------------------------------------------------
\* C20: the selection has no persistence: after any sequence of runs,
\* uploads and resets the bounds and the default range of the date slider
\* are the [min, max] of report_date of the table loaded in the run, never
\* bounds remembered from an earlier run.
SliderSpansTable ==
    (pc = "sidebar" /\ HasDates(table)) =>
        /\ slider.min_value = MinDate(table)
        /\ slider.max_value = MaxDate(table)
        /\ slider.value = <<MinDate(table), MaxDate(table)>>

-----------------------------------------------------------------------------
(* SpecMain: one run of main from the search for the dataset file: the
   load, then the pass over the sidebar, the filter and the tabs *)

\* load_data on the sheet read_excel returned
load_data(df) == AddDerived(_coerce_types(_standardize_columns(df)))

\* the loaded DataFrame as a table of records; its labels are distinct
FrameTable(df) ==
    [columns |-> Range(df.names),
     rows |-> [i \in 1..Len(df.rows) |->
                 [c \in Range(df.names) \cup {"idx"} |->
                     IF c = "idx" THEN i ELSE df.rows[i][PositionOf(df, c)]]]]

\* the columns of a case sheet, in the order of the file
CaseHeader ==
    <<"country", "report_date", "clade", "surveillance_notes", "confirmed_cases",
      "deaths", "suspected_cases", "case_fatality_rate", "weekly_new_cases",
      "vaccine_dose_allocated", "vaccine_dose_deployed", "vaccinations_administered",
      "vaccine_coverage", "testing_laboratries", "trained_chws", "deployed_chws",
      "active_surveillance_sites">>

\* the header a file uses for a column: the canonical name or an alias
Spell(spelling, col) ==
    IF spelling = "canonical" THEN col
    ELSE CASE col = "country" -> "Country"
           [] col = "report_date" -> "date"
           [] col = "confirmed_cases" -> "cases"
           [] col = "deaths" -> "Deaths"
           [] col = "case_fatality_rate" -> "CFR"
           [] OTHER -> col

\* the sheet of the given records; twice gives it a second deaths column,
\* headed DEATHS
CaseSheet(rows, spelling, twice) ==
    [names |-> [j \in 1..Len(CaseHeader) |-> Spell(spelling, CaseHeader[j])]
               \o (IF twice THEN <<"DEATHS">> ELSE <<>>),
     rows |-> [i \in 1..Len(rows) |->
                 [j \in 1..Len(CaseHeader) |-> rows[i][CaseHeader[j]]]
                 \o (IF twice THEN <<rows[i].deaths>> ELSE <<>>)]]

MainSheets ==
    {CaseSheet(rows, spelling, twice) :
        rows \in UNION {[1..n -> CaseRows] : n \in 1..MaxRows},
        spelling \in {"canonical", "alias"},
        twice \in BOOLEAN}

InitMain ==
    /\ pc = "start"
    /\ sheet \in MainSheets
    /\ frame = NoFrame
    /\ session = NewSession
    /\ slider = <<>>
    /\ anomaly = NoAnomaly
    /\ sim = <<>>
    /\ heap = <<>>
    /\ returned = <<>>
    /\ context_note = ""
    /\ table = NoTable
    /\ sel = NoSelection
    /\ filtered = NoTable
    /\ r = <<>>
    /\ priority_score = NaN
    /\ comps = NoComps
    /\ TabsIdle

mainKeeps ==
    <<sheet, session, slider, anomaly, sim, heap, returned, context_note, sel, filtered, r,
      priority_score, comps, country_latest, sel_row, rec_view, alerts, summary,
      rendered>>

\* one of possible_paths exists
FindDataset ==
    /\ pc = "start"
    /\ pc' = "found"
    /\ UNCHANGED <<mainKeeps, frame, table, raised>>

\* default_data_path is None: the error is shown and main returns
DatasetNotFound ==
    /\ pc = "start"
    /\ raised' = Raise("DatasetNotFound", {})
    /\ pc' = "returned"
    /\ UNCHANGED <<mainKeeps, frame, table>>

\* df = _load_data_cached(default_data_path, uploaded); on an exception the
\* error is shown and main returns
LoadData ==
    /\ pc = "found"
    /\ IF CoerceError(_standardize_columns(sheet)) # NoError
       THEN /\ raised' = CoerceError(_standardize_columns(sheet))
            /\ pc' = "returned"
            /\ UNCHANGED <<frame, table>>
       ELSE /\ frame' = load_data(sheet)
            /\ table' = FrameTable(load_data(sheet))
            /\ pc' = "loaded"
            /\ UNCHANGED raised
    /\ UNCHANGED mainKeeps

NextMain ==
    \/ FindDataset
    \/ DatasetNotFound
    \/ LoadData
    \/ Sidebar(SingleSelections(table))
    \/ FilterData
    \/ FindingsTab
    \/ GeographyTab
    \/ VaccinationTab
    \/ WorkforceTab
    \/ DeepDivesTab
    \/ InsightsTab
    \/ RecommendationsTab
    \/ DataPreview

SpecMain == InitMain /\ [][NextMain]_vars

-----------------------------------------------------------------------------
\* two columns of the sheet come under one label that load_data converts
LoadRaises(df) ==
    LET names == _standardize_columns(df).names
    IN  \E i, j \in 1..Len(names) :
            /\ i < j
            /\ names[i] = names[j]
            /\ names[i] \in Range(numeric_fields) \cup {"report_date"}

\* C21: when the dataset file is not found or load_data raises, main shows
\* a load error and returns: no sidebar selection is built, filter_data is
\* not called and no tab is rendered.
LoadErrorEndsRun ==
    (pc \notin {"start", "found"} /\ (raised.exc = "DatasetNotFound" \/ LoadRaises(sheet)))
        => /\ pc = "returned"
           /\ raised # NoError
           /\ table = NoTable
           /\ sel = NoSelection
           /\ filtered = NoTable
           /\ rendered = <<>>
           /\ country_latest = <<>>
           /\ summary = <<>>

\* a run ended by the TypeError of a sheet with two deaths columns
LoadErrorEndsRunWitness ==
    /\ pc = "returned"
    /\ LoadRaises(sheet)
    /\ raised = Raise("TypeError", {"deaths"})
    /\ rendered = <<>>

-----------------------------------------------------------------------------
(* SpecInsights: insights_tab section by section, on tables holding a
   weekly series per country *)

MaxSeries == 6

\* the record of country c for week w: cases rise by 20 a week
SeriesRow(c, w) ==
    CaseRow(c, 7 * (w - 1) + 1, "Ib", NA, F(20 * w), F(w), F(1000), F(500), F(10), F(1))

SeriesRows(c, n) == [w \in 1..n |-> SeriesRow(c, w)]

\* a country whose records report no case
NoCaseRow == CaseRow("Uganda", 1, NA, NA, Zero, F(1), F(100), Zero, F(4), F(1))

InsightTables ==
    {MkTable(AllColumns, SeriesRows("Kenya", n) \o other) :
        n \in 1..MaxSeries,
        other \in {<<>>, <<NoCaseRow>>} \cup {SeriesRows("Uganda", k) : k \in 1..MaxSeries}}

InitInsights ==
    /\ pc = "insights"
    /\ table \in InsightTables
    /\ sel = DefaultSelection(table)
    /\ filtered = table
    /\ r = <<>>
    /\ priority_score = NaN
    /\ comps = NoComps
    /\ TabsIdle
    /\ AuxIdle

\* lines 12-141: the aggregates, their scores and the drill-down of the
\* country the user picks
Aggregate ==
    /\ pc = "insights"
    /\ IF ~({"country", "confirmed_cases"} \subseteq filtered.columns)
       THEN /\ Returns("Insights", "recommendations")
            /\ UNCHANGED <<country_latest, sel_row, comps>>
       ELSE IF GroupKeys(filtered) = <<>>
       THEN /\ \E exc \in {"ValueError", "IndexError"} : Raises(Raise(exc, {}))
            /\ UNCHANGED <<country_latest, sel_row, comps>>
       ELSE LET top == SortByScore(CountryLatest(filtered))
            IN  /\ country_latest' = CountryLatest(filtered)
                /\ \E k \in 1..Len(top) :
                      /\ sel_row' = top[k]
                      /\ comps' = score_components(top[k])
                /\ pc' = "anomaly"
                /\ UNCHANGED <<rendered, raised>>
    /\ UNCHANGED <<r, priority_score, table, sel, filtered, rec_view, alerts, summary,
                   heap, returned, context_note, sheet, frame, session, slider,
                   anomaly, sim>>

\* the countries whose weekly series is long enough to be fitted
Fitted(df) ==
    SelectSeq(GroupKeys(df), LAMBDA c : Len(WeeklySeries(df, c)) >= 6)

\* what a fit may do: raise, flag recent weeks, or flag none
FitOutcomes == {"raises", "flagged", "clean"}

\* an exception of a fit that nothing catches
AnomalyError_uncaught(outcomes) ==
    IF \E c \in DOMAIN outcomes : outcomes[c] = "raises"
    THEN Raise("ValueError", {})
    ELSE NoError

\* the exception that leaves the loop over the countries: 'except
\* Exception: continue' lets none out
AnomalyError(outcomes) == NoError

\* lines 144-171: with the checkbox set and a weekly frame, each country
\* with 6 weekly rows or more is fitted; the notice is shown when nothing
\* was flagged
AnomalySection ==
    /\ pc = "anomaly"
    /\ \E enable_anomaly \in BOOLEAN :
          IF enable_anomaly /\ HasWeekly(filtered)
          THEN \E outcomes \in [Range(Fitted(filtered)) -> FitOutcomes] :
                  IF AnomalyError(outcomes) # NoError
                  THEN /\ Raises(AnomalyError(outcomes))
                       /\ UNCHANGED anomaly
                  ELSE /\ anomaly' =
                            [ran |-> TRUE, outcomes |-> outcomes,
                             notice |-> \A c \in DOMAIN outcomes : outcomes[c] # "flagged"]
                       /\ pc' = "recs"
                       /\ UNCHANGED <<rendered, raised>>
          ELSE /\ pc' = "recs"
               /\ UNCHANGED <<anomaly, rendered, raised>>
    /\ UNCHANGED <<r, priority_score, table, sel, filtered, insightsVars, summary,
                   heap, returned, context_note, sheet, frame, session, slider, sim>>

\* lines 192-196: the recommendation table
RecommendationTable ==
    /\ pc = "recs"
    /\ rec_view' = RecView(SortByScore(country_latest))
    /\ pc' = "whatif"
    /\ UNCHANGED <<r, priority_score, table, sel, filtered, country_latest, sel_row,
                   comps, alerts, summary, rendered, raised, auxVars>>

\* the values the three sliders are set to: doses, CHW increase in percent,
\* labs
Adjustments == {<<0, 0, 0>>, <<10000, 20, 10>>, <<0, 100, 0>>}

\* max(x, 1) of the simulator
AtLeastOne(x) == pyMax(x, One)

\* lines 210-217: the aggregate with the adjustments applied and its
\* ratios recomputed over max(total_cases, 1)
Simulated(base, adj) ==
    LET allocated == Add(base.allocated, F(adj[1]))
        deployed_chws == Mul(base.deployed_chws, Add(One, Fin(adj[2], 100)))
        labs == Add(base.labs, F(adj[3]))
        cases == AtLeastOne(base.total_cases)
    IN  [base EXCEPT !.allocated = allocated,
                     !.deployed_chws = deployed_chws,
                     !.labs = labs,
                     !.deployed_per_case = Div(deployed_chws, cases),
                     !.surveillance_per_case = Div(Add(base.sites, labs), cases),
                     !.allocation_per_1000 = Mul(Div(allocated, cases), F(1000))]

\* lines 199-221: the what-if simulator for the country and the
\* adjustments the user sets
WhatIf ==
    /\ pc = "whatif"
    /\ \E k \in 1..Len(country_latest), adj \in Adjustments :
          sim' = [country |-> country_latest[k].country,
                  adjustments |-> adj,
                  base_score |-> country_latest[k].priority_score,
                  sim_score |-> score_row(Simulated(country_latest[k], adj))]
    /\ pc' = "quality"
    /\ UNCHANGED <<r, priority_score, table, sel, filtered, insightsVars, summary,
                   rendered, raised, heap, returned, context_note, sheet, frame,
                   session, slider, anomaly>>

\* lines 223-278: the data-quality metrics, which catch their own failures,
\* and the alert badges; the tab returns
QualityAndAlerts ==
    /\ pc = "quality"
    /\ alerts' = alerts_for(sel_row)
    /\ Returns("Insights", "recommendations")
    /\ UNCHANGED <<r, priority_score, table, sel, filtered, country_latest, sel_row,
                   comps, rec_view, summary, auxVars>>

NextInsights ==
    \/ Aggregate
    \/ AnomalySection
    \/ RecommendationTable
    \/ WhatIf
    \/ QualityAndAlerts

SpecInsights == InitInsights /\ [][NextInsights]_vars

-----------------------------------------------------------------------------
\* C22: a failure of the anomaly model for a country never aborts
\* insights_tab: it is caught, every country with a long enough series is
\* still fitted, the notice is shown when nothing was flagged, and the
\* recommendation table, the simulator and the data-quality section run.
AnomalyFailureCaught ==
    /\ pc # "error"
    /\ (anomaly.ran /\ \E c \in DOMAIN anomaly.outcomes : anomaly.outcomes[c] = "raises")
          => /\ raised = NoError
             /\ DOMAIN anomaly.outcomes = Range(Fitted(filtered))
             /\ anomaly.notice
                   <=> (\A c \in DOMAIN anomaly.outcomes : anomaly.outcomes[c] # "flagged")
             /\ pc = "recommendations"
                   => /\ Len(rec_view) = Len(country_latest)
                      /\ sim # <<>>
                      /\ rendered = <<"Insights">>

\* the fit of Kenya raised, Uganda was still fitted and flagged, and the
\* tab returned
AnomalyFailureCaughtWitness ==
    /\ pc = "recommendations"
    /\ anomaly.ran
    /\ DOMAIN anomaly.outcomes = {"Kenya", "Uganda"}
    /\ anomaly.outcomes["Kenya"] = "raises"
    /\ anomaly.outcomes["Uganda"] = "flagged"
    /\ ~anomaly.notice
    /\ sim # <<>>
    /\ rendered = <<"Insights">>

\* every fit raised: the notice is shown and the tab returns
AnomalyAllFailReached ==
    /\ pc = "recommendations"
    /\ anomaly.ran
    /\ DOMAIN anomaly.outcomes = {"Kenya", "Uganda"}
    /\ \A c \in DOMAIN anomaly.outcomes : anomaly.outcomes[c] = "raises"
    /\ anomaly.notice

\* C29: with the three adjustments at 0 the projected score of the
\* simulator equals the base priority_score of the country, for every
\* aggregate, also one with total_cases = 0.
NoAdjustmentKeepsScore ==
    (sim # <<>> /\ sim.adjustments = <<0, 0, 0>>) => sim.sim_score = sim.base_score

-----------------------------------------------------------------------------
\* the labels load_data assigns from report_date
DerivedLabels == {"date", "year_week", "year_month"}

\* the cell load_data returns for a source cell under a column label
Coerced(label, cell) ==
    IF label = "report_date" /\ cell = BadDate THEN NaT
    ELSE IF label \in Range(numeric_fields) /\ cell = Text THEN NaN
    ELSE cell

\* C23 (as amended): load_data keeps every row in its place: the table has
\* as many rows as the sheet, a malformed date or number becomes unknown,
\* and every other cell of the row is the cell of the sheet, except under
\* the labels date, year_week and year_month, which load_data assigns.
RowsKeptCellwise ==
    pc = "loaded" =>
        /\ Len(frame.rows) = Len(sheet.rows)
        /\ \A i \in 1..Len(sheet.rows) : \A j \in 1..Len(sheet.names) :
              frame.names[j] \notin DerivedLabels
                  => frame.rows[i][j] = Coerced(frame.names[j], sheet.rows[i][j])

\* a row with a malformed number and a malformed date is kept, second of
\* two, with its region cell as in the sheet
RowsKeptCellwiseWitness ==
    /\ pc = "loaded"
    /\ sheet.names = <<"cases", "date", "region">>
    /\ sheet.rows = <<<<F(50), 2, "East">>, <<Text, BadDate, "West">>>>
    /\ frame.rows[1][1] = F(50)
    /\ frame.rows[2][1] = NaN
    /\ frame.rows[2][2] = NaT
    /\ frame.rows[2][3] = "West"

\* C23: load_data keeps every row: a malformed date or number becomes
\* unknown for that cell only, the table has the rows of the sheet in the
\* same order, and every other cell of the row is unchanged.
RowsAndOtherCellsKept ==
    pc = "loaded" =>
        /\ Len(frame.rows) = Len(sheet.rows)
        /\ \A i \in 1..Len(sheet.rows) : \A j \in 1..Len(sheet.names) :
              frame.rows[i][j] = Coerced(frame.names[j], sheet.rows[i][j])

-----------------------------------------------------------------------------
\* C24: with the widgets of the sidebar at their defaults the filtered
\* table is the loaded table row for row, the rows whose report_date is
\* unknown included, and the note is the 'no filters applied' string.
NoSelectionShowsAll ==
    (pc = "filtered" /\ sel = DefaultSelection(table))
        => /\ filtered = table
           /\ make_filter_note(sel.date_range, sel.countries, sel.clades, sel.notes)
                 = "Showing all data (no filters applied)."

-----------------------------------------------------------------------------
\* C25: every option a widget of the sidebar offers, chosen alone, matches
\* at least one row of the table, and the clade option "Unknown" selects
\* exactly the rows whose clade is missing.
OfferedOptionsMatch ==
    LET alone(field) == /\ Len(sel[field]) = 1
                        /\ sel = [DefaultSelection(table) EXCEPT ![field] = sel[field]]
        only(field) ==
            filter_data(table, <<>>,
                        IF field = "countries" THEN sel.countries ELSE <<>>,
                        IF field = "clades" THEN sel.clades ELSE <<>>,
                        IF field = "notes" THEN sel.notes ELSE <<>>)
    IN  pc = "filtered" =>
          /\ \A field \in {"countries", "clades", "notes"} :
                alone(field) => only(field).rows # <<>>
          /\ (alone("clades") /\ sel.clades = <<"Unknown">>)
                => only("clades").rows
                      = SelectSeq(table.rows, LAMBDA row : row.clade = NA)

-----------------------------------------------------------------------------
\* C26: when the selection matches no row of a table that has rows and
\* every column, the pass over the tabs completes: no tab raises on the
\* empty filtered table.
EmptySelectionCompletes ==
    (/\ pc \notin {"loaded", "sidebar"}
     /\ table.columns = AllColumns
     /\ table.rows # <<>>
     /\ filtered.rows = <<>>)
        => /\ pc # "error"
           /\ raised = NoError

\* C27: _assign_personas asks for no more clusters than there are
\* countries, and recommendations_tab does not fail on a summary of
\* exactly one country.
PersonasForAnyCount ==
    ("country" \in filtered.columns /\ GroupKeys(filtered) # <<>>)
        => /\ pc = "recommendations"
                 => n_clusters(Len(GroupKeys(filtered))) <= Len(GroupKeys(filtered))
           /\ (pc = "error" /\ "Insights" \in Range(rendered)
                  /\ Len(GroupKeys(filtered)) = 1)
                 => raised.exc # "ValueError"
-----------------------------------------------------------------------------
\* the metric each of the five threshold rules tests
RuleMetrics ==
    <<"cfr_percent", "deployed_per_case", "surveillance_per_case",
      "allocation_per_1000", "uptake_rate_pct">>

\* C28: in both views a rule whose metric is NaN does not trigger: its
\* message is not in the output.
NanNeverTriggers ==
    pc = "recommended" =>
        \A k \in 1..Len(RuleMetrics) :
            IsNaN(r[RuleMetrics[k]])
                => /\ InsightsMessages[k] \notin Range(InsightsOut)
                   /\ RecommendationsMessages[k] \notin Range(RecommendationsOut)

\* a row with CFR 4 and the four other metrics unknown: only the CFR rule
\* triggers in both views
NanNeverTriggersWitness ==
    /\ pc = "recommended"
    /\ r.cfr_percent = F(4)
    /\ \A k \in 2..Len(RuleMetrics) : IsNaN(r[RuleMetrics[k]])
    /\ ~CoverageUnknown(r)
    /\ InsightsOut = <<InsightsMessages[1]>>
    /\ RecommendationsOut = <<RecommendationsMessages[1]>>

-----------------------------------------------------------------------------
\* C30: the run that follows 'Reset filters' returns the default
\* selection: no countries, no clades, no notes, and the date range equal
\* to the full [min, max] of the slider.
ResetRestoresDefaults ==
    pc = "reset" =>
        /\ sel.countries = <<>>
        /\ sel.clades = <<>>
        /\ sel.notes = <<>>
        /\ sel.date_range = IF slider = <<>> THEN <<>>
                            ELSE <<slider.min_value, slider.max_value>>
        /\ slider # <<>> => slider.value = <<slider.min_value, slider.max_value>>

\* a reset on a table with dates and several days between the bounds
ResetRestoresDefaultsWitness ==
    /\ pc = "reset"
    /\ slider # <<>>
    /\ slider.min_value < slider.max_value
    /\ sel.date_range = <<slider.min_value, slider.max_value>>
    /\ all_countries(table) # {}
    /\ sel.countries = <<>>

\* a country, a clade and a narrowed date range are chosen together,
\* before any reset
SelectionsBeforeReset ==
    /\ pc = "sidebar"
    /\ Len(sel.countries) = 1
    /\ Len(sel.clades) = 1
    /\ slider # <<>>
    /\ sel.date_range # <<slider.min_value, slider.max_value>>

====
